---- MODULE Spec2Model ----
(***************************************************************************)
(* A model of the cascade routing core: the time-dependent cost oracle of  *)
(* a graph edge (graph.rs, algo/itinerary/segment.rs), the time-dependent  *)
(* Dijkstra engine and its public wrappers (algo/dijkstra.rs,              *)
(* algo/path_wrappers.rs, algo/itinerary/dijkstra_itinerary.rs) and the    *)
(* transit loader (loaders.rs).                                            *)
(*                                                                         *)
(* Numbers.  Times of day are whole seconds (u32 in the source).  Scores   *)
(* and edge weights are f64 seconds in the source; here they are counted   *)
(* in ticks, Scale ticks to the second, so that a walk weight can be a     *)
(* fraction of a second and the cast `travel_time as u32` is a real        *)
(* truncation (ticks \div Scale).                                          *)
(***************************************************************************)
EXTENDS Integers, Sequences, FiniteSets, TLC

\* ---------------------------------------------------------------- bounds
\* Ticks per second of the fixed-point representation of f64 seconds.
Scale == 2
\* Largest time of day (seconds) appearing in a schedule of the oracle runs.
MaxTime == 2
\* Largest number of trips on one transit edge of the oracle runs.
MaxTrips == 2
\* Largest walk weight (ticks) of the oracle runs.
MaxWalk == 2
\* Number of oracle calls made on one edge in one run.
MaxCalls == 2

\* f64::INFINITY, the "no trip" delay.
INFINITY == 1000000

VARIABLES
    tie_pick,     \* which of several equal matches binary_search_by returns
    edge,         \* oracle runs: the GraphEdge under test
    delays,       \* oracle runs: current_time -> calculate_delay result
    segments,     \* oracle runs: <<current_time, wheelchair>> -> Segment
    graph,        \* the TransitGraph handed to a query
    origin,       \* the query's start SnappedPoint
    target,       \* the query's target SnappedPoint
    start_time,   \* the query's start time (seconds)
    call,         \* engine runs: the function running and its wheelchair flag
    search,       \* engine runs: the locals of the running search
    outcome,      \* engine runs: what the function returned
    answers,      \* query runs: what each public query returned
    stops_df,     \* loader runs: the stop ids of stops.txt, in row order
    stop_times_df,\* loader runs: trip_id -> the trip's filtered stop-time rows
    applied,      \* loader runs: the trips group_by().apply has handled
    transit_graph,\* loader runs: the graph being built
    load_result,  \* loader runs: what new_graph returned
    pbf,          \* build runs: the nodes and ways the OSM reader returns
    city,         \* build runs: the TransitGraph of from / extend_with_transit
    snapped,      \* build runs: what the last SnappedPoint::init returned
    rebuilt,      \* rebuild runs: the TransitGraph of a second build of the inputs
    replies,      \* rebuild runs: a query and what it returned on either graph
    gtfs_args,    \* prepare runs: the feed and the arguments of the call
    prepared,     \* prepare runs: what prepare_dataframes returned
    batch,        \* batch runs: the call, its inputs and its sequential locals
    workers,      \* batch runs: per worker thread, the row it is on and its locals
    done_rows,    \* batch runs: row index -> what the row's closure returned
    collector,    \* batch runs: the Result collector's saved error and full flag,
                  \* and the rows whose Err reached it, in the order they did
    batch_result  \* batch runs: what the call returned

oracleVars == <<edge, delays, segments>>
queryVars == <<tie_pick, graph, origin, target, start_time>>
engineVars == <<call, search, outcome>>
loaderVars == <<stops_df, stop_times_df, applied, transit_graph, load_result>>
buildVars == <<pbf, city, snapped, rebuilt, replies>>
prepareVars == <<gtfs_args, prepared>>
batchVars == <<batch, workers, done_rows, collector, batch_result>>
stageVars == <<buildVars, prepareVars, batchVars>>

vars == <<tie_pick, edge, delays, segments, graph, origin, target, start_time,
          call, search, outcome, answers,
          stops_df, stop_times_df, applied, transit_graph, load_result,
          pbf, city, snapped, rebuilt, replies, gtfs_args, prepared,
          batch, workers, done_rows, collector, batch_result>>

\* ------------------------------------------------------------ data model
\* graph.rs Trip: one scheduled movement between two adjacent stops.
Trip(dep, arr, route, acc) ==
    [departure_time |-> dep, arrival_time |-> arr,
     route_id |-> route, wheelchair_accessible |-> acc]

\* graph.rs GraphEdge::Transit(TransitEdge { edge_trips }).
TransitEdge(trips) == [kind |-> "Transit", edge_trips |-> trips]
\* graph.rs GraphEdge::Walk(WalkEdge { edge_weight }), weight in ticks.
WalkEdge(w) == [kind |-> "Walk", edge_weight |-> w]
\* graph.rs GraphEdge::Transfer(WalkEdge { edge_weight }), weight in ticks.
TransferEdge(w) == [kind |-> "Transfer", edge_weight |-> w]

\* Trip::cmp / Trip::eq compare departure_time only, so Vec::sort leaves a
\* list that is non-decreasing in departure_time and nothing more.
SortedByDeparture(trips) ==
    \A i \in 1..(Len(trips) - 1) :
        trips[i].departure_time <= trips[i + 1].departure_time

\* segment.rs Segment.
SegTransit(trip, weight) == [kind |-> "Transit", trip |-> trip, weight |-> weight]
SegPedestrian(weight) == [kind |-> "Pedestrian", weight |-> weight]
SegNoService == [kind |-> "NoService"]

\* ---------------------------------------------------------- cost oracle
\* slice::binary_search_by(|trip| trip.departure_time.cmp(&current_time)) on
\* a list sorted by departure: Ok(i) with trips[i].departure_time equal to
\* current_time when there is such a trip (which one, among several, is the
\* library's choice: `pick` selects it), otherwise Err(i) with i the number
\* of trips departing before current_time.  Indices are 0-based as in Rust.
BinarySearchPick(trips, current_time, pick) ==
    LET eq == {i \in 0..(Len(trips) - 1) :
                  trips[i + 1].departure_time = current_time}
        lt == {i \in 0..(Len(trips) - 1) :
                  trips[i + 1].departure_time < current_time}
    IN  IF eq # {}
        THEN LET lo == CHOOSE i \in eq : \A j \in eq : i <= j
             IN  [found |-> TRUE, index |-> lo + (pick % Cardinality(eq))]
        ELSE [found |-> FALSE, index |-> Cardinality(lt)]

binary_search_by(trips, current_time) ==
    BinarySearchPick(trips, current_time, tie_pick)

\* A slip of the comparator: trips departing exactly at current_time count
\* as already gone.
calculate_delay_strict(e, current_time) ==
    IF e.kind = "Transit"
    THEN LET trips == e.edge_trips
             gone == Cardinality({i \in 1..Len(trips) :
                         trips[i].departure_time <= current_time})
         IN  IF gone < Len(trips)
             THEN (trips[gone + 1].arrival_time - current_time) * Scale
             ELSE INFINITY
    ELSE e.edge_weight

\* GraphEdge::calculate_delay, in ticks.
calculate_delay(e, current_time) ==
    IF e.kind = "Transit"
    THEN LET trips == e.edge_trips
             r == binary_search_by(trips, current_time)
         IN  IF r.index < Len(trips)
             THEN (trips[r.index + 1].arrival_time - current_time) * Scale
             ELSE INFINITY
    ELSE e.edge_weight

\* The wheelchair test dropped.
calculate_itinerary_nofilter(e, current_time, wheelchair) ==
    IF e.kind = "Transit"
    THEN LET trips == e.edge_trips
             r == binary_search_by(trips, current_time)
         IN  IF r.index < Len(trips)
             THEN LET trip == trips[r.index + 1]
                  IN  SegTransit(trip, (trip.arrival_time - current_time) * Scale)
             ELSE SegNoService
    ELSE SegPedestrian(e.edge_weight)

\* GraphEdge::calculate_itinerary (the geometry it carries along is left out).
calculate_itinerary(e, current_time, wheelchair) ==
    IF e.kind = "Transit"
    THEN LET trips == e.edge_trips
             r == binary_search_by(trips, current_time)
         IN  IF r.index < Len(trips)
             THEN LET trip == trips[r.index + 1]
                  IN  IF ~trip.wheelchair_accessible /\ wheelchair
                      THEN SegNoService
                      ELSE SegTransit(trip,
                               (trip.arrival_time - current_time) * Scale)
             ELSE SegNoService
    ELSE SegPedestrian(e.edge_weight)

\* ------------------------------------------------------------ oracle runs
Times == 0..MaxTime

OracleTrips ==
    {Trip(d, a, "r1", w) : d \in Times, a \in Times, w \in BOOLEAN}

\* Every list the loader can leave on an edge: at least one trip, each with
\* departure <= arrival (add_edges_to_graph rejects the rest), sorted by
\* departure (new_graph).
OracleTripLists ==
    {l \in UNION {[1..n -> OracleTrips] : n \in 1..MaxTrips} :
        /\ \A i \in 1..Len(l) : l[i].departure_time <= l[i].arrival_time
        /\ SortedByDeparture(l)}

OracleEdges ==
    {TransitEdge(l) : l \in OracleTripLists}
        \cup {WalkEdge(w) : w \in 0..MaxWalk}
        \cup {TransferEdge(w) : w \in 0..MaxWalk}

EmptyMap == [x \in {} |-> 0]

\* What the variables of the other runs hold while they are not in use.
Pending == [kind |-> "pending"]
NoGraph == [node_count |-> 0, edges |-> <<>>]
NoPoint == [index |-> 0, distance |-> 0]
NoCall == [fn |-> "none", wheelchair |-> FALSE]
NoSearch == [visited |-> {}, scores |-> EmptyMap, visit_next |-> <<>>,
             predecessors |-> EmptyMap, popped |-> Pending]
NoAnswers == [single_source_shortest_path |-> Pending,
              shortest_path_weight |-> Pending,
              detailed_itinerary |-> Pending,
              detailed_itinerary_wheelchair |-> Pending]

QueriesIdle ==
    /\ graph = NoGraph /\ origin = NoPoint /\ target = NoPoint /\ start_time = 0
EngineIdle == call = NoCall /\ search = NoSearch /\ outcome = Pending
LoaderIdle ==
    /\ stops_df = <<>> /\ stop_times_df = EmptyMap /\ applied = {}
    /\ transit_graph = NoGraph /\ load_result = Pending
OracleIdle == edge = [kind |-> "Walk", edge_weight |-> 0] /\ delays = EmptyMap /\ segments = EmptyMap
\* The err of a call that returned Ok.
NoError == [kind |-> "none"]
NoPbf == [nodes |-> <<>>, ways |-> <<>>]
BuildIdle ==
    /\ pbf = NoPbf /\ city = Pending /\ snapped = Pending
    /\ rebuilt = Pending /\ replies = Pending
PrepareIdle == gtfs_args = Pending /\ prepared = Pending
NoCollector == [saved_error |-> NoError, full |-> FALSE, failures |-> <<>>]
BatchIdle ==
    /\ batch = Pending /\ workers = <<>> /\ done_rows = EmptyMap
    /\ collector = NoCollector /\ batch_result = Pending
StagesIdle == BuildIdle /\ PrepareIdle /\ BatchIdle

InitOracle ==
    /\ tie_pick \in 0..(MaxTrips - 1)
    /\ edge \in OracleEdges
    /\ delays = EmptyMap
    /\ segments = EmptyMap
    /\ QueriesIdle /\ EngineIdle /\ answers = NoAnswers /\ LoaderIdle
    /\ StagesIdle

CallsMade == Cardinality(DOMAIN delays) + Cardinality(DOMAIN segments)

\* One call edge.calculate_delay(t).
CalculateDelay ==
    /\ CallsMade < MaxCalls
    /\ \E t \in Times \ DOMAIN delays :
           delays' = delays @@ (t :> calculate_delay(edge, t))
    /\ UNCHANGED <<edge, segments, queryVars, engineVars, answers, loaderVars, stageVars>>

\* One call edge.calculate_itinerary(t, geometry, wheelchair).
CalculateItinerary ==
    /\ CallsMade < MaxCalls
    /\ \E t \in Times, w \in BOOLEAN :
           /\ <<t, w>> \notin DOMAIN segments
           /\ segments' = segments @@ (<<t, w>> :> calculate_itinerary(edge, t, w))
    /\ UNCHANGED <<edge, delays, queryVars, engineVars, answers, loaderVars, stageVars>>

NextOracle == CalculateDelay \/ CalculateItinerary

SpecOracle == InitOracle /\ [][NextOracle]_vars

\* ------------------------------------------------------------ the graph
\* petgraph DiGraph<GraphNode, GraphEdge>: node indices 0..node_count-1 and
\* the edges in insertion order, each [source, target, weight: GraphEdge].
GraphNodes(g) == 0..(g.node_count - 1)

Edge(u, v, w) == [source |-> u, target |-> v, weight |-> w]

\* graph.edges(node): petgraph walks a node's outgoing edges from the most
\* recently added to the oldest.  The result is a sequence of edge indices.
edges(g, node) ==
    LET n == Len(g.edges)
        newestFirst == [i \in 1..n |-> n + 1 - i]
    IN  SelectSeq(newestFirst, LAMBDA i : g.edges[i].source = node)

\* connectors.rs SnappedPoint: the nearest node and the walk time (ticks)
\* from the external point to it.
SnappedPoint(index, distance) == [index |-> index, distance |-> distance]

\* Option<NodeIndex>.
Some(n) == [some |-> TRUE, node |-> n]
None == [some |-> FALSE, node |-> 0]

\* ------------------------------------------- the queue (BinaryHeap<MinScored>)
\* MinScored(score, (node, time)).
MinScored(score, node, time) == [score |-> score, node |-> node, time |-> time]

\* MinScored::partial_cmp reverses the order of the scores and looks at
\* nothing else: a <= b as MinScored exactly when b.score <= a.score.
MinScoredLe(a, b) == b.score <= a.score

\* BinaryHeap::sift_up(start, pos) with the hole holding elt; a heap is the
\* Vec it is stored in, position i of the Vec being h[i + 1].
RECURSIVE SiftUp(_, _, _, _)
SiftUp(h, elt, start, pos) ==
    IF pos > start
    THEN LET parent == (pos - 1) \div 2
         IN  IF MinScoredLe(elt, h[parent + 1])
             THEN [h EXCEPT ![pos + 1] = elt]
             ELSE SiftUp([h EXCEPT ![pos + 1] = h[parent + 1]], elt, start, parent)
    ELSE [h EXCEPT ![pos + 1] = elt]

\* BinaryHeap::sift_down_to_bottom(pos): the hole goes down to a leaf along
\* the greater children, then the element is sifted back up.
RECURSIVE SiftDownToBottom(_, _, _)
SiftDownToBottom(h, elt, pos) ==
    LET end == Len(h)
        child == 2 * pos + 1
    IN  IF child + 2 <= end
        THEN LET c == IF MinScoredLe(h[child + 1], h[child + 2])
                      THEN child + 1 ELSE child
             IN  SiftDownToBottom([h EXCEPT ![pos + 1] = h[c + 1]], elt, c)
        ELSE IF child = end - 1
             THEN SiftUp([h EXCEPT ![pos + 1] = h[child + 1]], elt, 0, child)
             ELSE SiftUp(h, elt, 0, pos)

\* BinaryHeap::push.
HeapPush(h, item) == SiftUp(Append(h, item), item, 0, Len(h))

\* BinaryHeap::pop on a non-empty heap: the root, and the heap that is left.
HeapPop(h) ==
    LET last == h[Len(h)]
        rest == SubSeq(h, 1, Len(h) - 1)
    IN  IF rest = <<>>
        THEN [item |-> last, heap |-> rest]
        ELSE [item |-> h[1], heap |-> SiftDownToBottom(rest, last, 0)]


\* ------------------------------------------------------------ the engine
\* The locals of a search once the start node is seeded: visited, scores,
\* visit_next and (detailed_itinerary_internal only) predecessors.  `popped`
\* remembers what the last turn of the loop took off the queue.
SearchSeed(start, t0) ==
    [visited |-> {},
     scores |-> (start :> 0),
     visit_next |-> HeapPush(<<>>, MinScored(0, start, t0)),
     predecessors |-> EmptyMap,
     popped |-> Pending]

\* A loop that leaves as soon as the target has a score.
NextTurnOnDiscovery(s, tgt) ==
    IF s.visit_next = <<>> THEN "exhausted"
    ELSE LET node == HeapPop(s.visit_next).item.node
         IN  IF tgt.some /\ tgt.node \in DOMAIN s.scores THEN "break"
             ELSE IF node \in s.visited THEN "skip"
             ELSE "expand"

\* Which way the next turn of `while let Some(..) = visit_next.pop()` goes.
NextTurn(s, tgt) ==
    IF s.visit_next = <<>> THEN "exhausted"
    ELSE LET node == HeapPop(s.visit_next).item.node
         IN  IF node \in s.visited THEN "skip"
             ELSE IF tgt.some /\ node = tgt.node THEN "break"
             ELSE "expand"

\* The pop itself, with the note of what was popped.
TakePop(s) ==
    LET p == HeapPop(s.visit_next)
    IN  [s EXCEPT !.visit_next = p.heap,
                  !.popped = [kind |-> "popped", item |-> p.item,
                              fresh |-> p.item.node \notin s.visited]]

\* The same loop body with a clock that rounds each cost up to a second.
RECURSIVE RelaxDelaysRoundUp(_, _, _, _)
RelaxDelaysRoundUp(g, s, item, todo) ==
    IF todo = <<>> THEN s
    ELSE LET e == g.edges[Head(todo)]
             next == e.target
             travel_time == calculate_delay(e.weight, item.time)
             next_score == item.score + travel_time
             next_time == item.time + ((travel_time + Scale - 1) \div Scale)
             s2 == IF next \in s.visited THEN s
                   ELSE IF travel_time = INFINITY THEN s
                   ELSE IF next \in DOMAIN s.scores /\ ~(next_score < s.scores[next])
                        THEN s
                   ELSE [s EXCEPT
                            !.scores = (next :> next_score) @@ s.scores,
                            !.visit_next =
                                HeapPush(@, MinScored(next_score, next, next_time))]
         IN  RelaxDelaysRoundUp(g, s2, item, Tail(todo))

\* The body of `for edge in graph.edges(node)` of time_dependent_dijkstra,
\* over the edge indices still to do.
RECURSIVE RelaxDelays(_, _, _, _)
RelaxDelays(g, s, item, todo) ==
    IF todo = <<>> THEN s
    ELSE LET e == g.edges[Head(todo)]
             next == e.target
             travel_time == calculate_delay(e.weight, item.time)
             next_score == item.score + travel_time
             next_time == item.time + (travel_time \div Scale)
             s2 == IF next \in s.visited THEN s
                   ELSE IF travel_time = INFINITY THEN s
                   ELSE IF next \in DOMAIN s.scores /\ ~(next_score < s.scores[next])
                        THEN s
                   ELSE [s EXCEPT
                            !.scores = (next :> next_score) @@ s.scores,
                            !.visit_next =
                                HeapPush(@, MinScored(next_score, next, next_time))]
         IN  RelaxDelays(g, s2, item, Tail(todo))

\* The same loop body in detailed_itinerary_internal: the edge is asked for a
\* Segment and the predecessor is recorded with every score written.
RECURSIVE RelaxSegments(_, _, _, _, _)
RelaxSegments(g, s, item, wheelchair, todo) ==
    IF todo = <<>> THEN s
    ELSE LET e == g.edges[Head(todo)]
             next_node == e.target
             segment == calculate_itinerary(e.weight, item.time, wheelchair)
             travel_time == segment.weight
             next_score == item.score + travel_time
             next_time == item.time + (travel_time \div Scale)
             s2 == IF next_node \in s.visited THEN s
                   ELSE IF segment = SegNoService THEN s
                   ELSE IF next_node \in DOMAIN s.scores
                           /\ ~(next_score < s.scores[next_node])
                        THEN s
                   ELSE [s EXCEPT
                            !.scores = (next_node :> next_score) @@ s.scores,
                            !.visit_next =
                                HeapPush(@, MinScored(next_score, next_node, next_time)),
                            !.predecessors =
                                (next_node :> [prev |-> item.node, segment |-> segment])
                                    @@ s.predecessors]
         IN  RelaxSegments(g, s2, item, wheelchair, Tail(todo))

\* One turn of the loop of time_dependent_dijkstra.
DijkstraTurn(g, tgt, s) ==
    LET turn == NextTurn(s, tgt)
        s1 == TakePop(s)
        item == s1.popped.item
    IN  IF turn = "exhausted" THEN s
        ELSE IF turn = "expand"
        THEN [RelaxDelays(g, s1, item, edges(g, item.node))
                 EXCEPT !.visited = @ \cup {item.node}]
        ELSE s1

\* A turn that forgets to mark the popped node visited.
ItineraryTurnUnmarked(g, tgt, wheelchair, s) ==
    LET turn == NextTurn(s, tgt)
        s1 == TakePop(s)
        item == s1.popped.item
    IN  IF turn = "exhausted" THEN s
        ELSE IF turn = "expand"
        THEN RelaxSegments(g, s1, item, wheelchair, edges(g, item.node))
        ELSE s1

\* One turn of the loop of detailed_itinerary_internal.
ItineraryTurn(g, tgt, wheelchair, s) ==
    LET turn == NextTurn(s, tgt)
        s1 == TakePop(s)
        item == s1.popped.item
    IN  IF turn = "exhausted" THEN s
        ELSE IF turn = "expand"
        THEN [RelaxSegments(g, s1, item, wheelchair, edges(g, item.node))
                 EXCEPT !.visited = @ \cup {item.node}]
        ELSE s1

\* The loop of time_dependent_dijkstra run to its end.
RECURSIVE DijkstraLoop(_, _, _)
DijkstraLoop(g, tgt, s) ==
    IF NextTurn(s, tgt) \in {"exhausted", "break"}
    THEN DijkstraTurn(g, tgt, s)
    ELSE DijkstraLoop(g, tgt, DijkstraTurn(g, tgt, s))

\* The loop of detailed_itinerary_internal run to its end.
RECURSIVE ItineraryLoop(_, _, _, _)
ItineraryLoop(g, tgt, wheelchair, s) ==
    IF NextTurn(s, tgt) \in {"exhausted", "break"}
    THEN ItineraryTurn(g, tgt, wheelchair, s)
    ELSE ItineraryLoop(g, tgt, wheelchair, ItineraryTurn(g, tgt, wheelchair, s))

\* time_dependent_dijkstra: the scores map it returns.
time_dependent_dijkstra(g, start, tgt, t0) ==
    DijkstraLoop(g, tgt, SearchSeed(start, t0)).scores

\* "Reconstruct the path": the segments met walking the predecessors back
\* from `current`, in the order they are pushed.
RECURSIVE WalkBack(_, _)
WalkBack(predecessors, current) ==
    IF current \in DOMAIN predecessors
    THEN <<predecessors[current].segment>>
             \o WalkBack(predecessors, predecessors[current].prev)
    ELSE <<>>

\* The segments left in the order the walk back met them.
KeepOrder(q) == q

\* Vec::reverse.
Reverse(q) == [i \in 1..Len(q) |-> q[Len(q) + 1 - i]]

\* What detailed_itinerary_internal returns from the locals its loop left.
ItineraryOf(s, tgt) ==
    IF tgt \in DOMAIN s.scores
    THEN [segments |-> Reverse(WalkBack(s.predecessors, tgt))]
    ELSE [segments |-> <<>>]

detailed_itinerary_internal(g, start, tgt, t0, wheelchair) ==
    ItineraryOf(ItineraryLoop(g, Some(tgt), wheelchair, SearchSeed(start, t0)), tgt)

\* Itinerary::duration.
RECURSIVE SumWeights(_)
SumWeights(q) == IF q = <<>> THEN 0 ELSE Head(q).weight + SumWeights(Tail(q))

duration(itinerary) == SumWeights(itinerary.segments)

\* ------------------------------------------------------- public wrappers
\* What single_source_shortest_path makes of the scores: the snap distance
\* is left off.
AddDistanceNowhere(result, distance) == result

\* result.iter_mut().for_each(|(_, v)| *v += distance).
AddDistance(result, distance) == [n \in DOMAIN result |-> result[n] + distance]

single_source_shortest_path(g, start, t0) ==
    AddDistance(time_dependent_dijkstra(g, start.index, None, t0), start.distance)

\* result.get(target_index).ok_or(MissingValue)?, the start's distance left off.
WeightOfNoDistance(result, target_index, distance) ==
    IF target_index \in DOMAIN result
    THEN [kind |-> "Ok", value |-> result[target_index]]
    ELSE [kind |-> "Err", error |-> "MissingValue"]

\* result.get(target_index).ok_or(MissingValue)?; Ok(*time + distance).
WeightOf(result, target_index, distance) ==
    IF target_index \in DOMAIN result
    THEN [kind |-> "Ok", value |-> result[target_index] + distance]
    ELSE [kind |-> "Err", error |-> "MissingValue"]

shortest_path_weight(g, start, tgt, t0) ==
    WeightOf(time_dependent_dijkstra(g, start.index, Some(tgt.index), t0),
             tgt.index, start.distance)

\* detailed_itinerary as its callers use it, the wheelchair flag handed on
\* to every calculate_itinerary call.
detailed_itinerary(g, start, tgt, t0, wheelchair) ==
    detailed_itinerary_internal(g, start.index, tgt.index, t0, wheelchair)

\* ---------------------------------------------------------- query inputs
\* Number of nodes of the graphs queried.
NodeCount == 4
\* Largest number of edges of a graph queried.
MaxEdges == 4
\* Largest start time (seconds) of a query.
MaxStart == 1
\* Largest snap distance (ticks) of a query's origin or target point.
MaxSnap == 1

\* The edges the graphs queried are made of.  Every transit list is as the
\* loader leaves it: sorted by departure, departure <= arrival.
EdgeUniverse ==
    << Edge(0, 1, TransitEdge(<<Trip(0, 0, "r1", FALSE)>>)),
       Edge(1, 2, WalkEdge(1)),
       Edge(0, 2, TransitEdge(<<Trip(0, 1, "r2", TRUE)>>)),
       Edge(2, 3, TransitEdge(<<Trip(1, 2, "r3", TRUE)>>)),
       Edge(2, 3, TransitEdge(<<Trip(1, 3, "r4", TRUE), Trip(1, 2, "r5", FALSE)>>)),
       Edge(1, 3, TransitEdge(<<Trip(0, 3, "r6", TRUE), Trip(1, 2, "r7", TRUE)>>)),
       Edge(0, 2, WalkEdge(3)),
       Edge(2, 0, TransferEdge(1)) >>

\* The sub-sequence of EdgeUniverse at the positions in `keep`.
RECURSIVE Pick(_, _)
Pick(keep, i) ==
    IF i > Len(EdgeUniverse) THEN <<>>
    ELSE (IF i \in keep THEN <<EdgeUniverse[i]>> ELSE <<>>) \o Pick(keep, i + 1)

Graphs ==
    {[node_count |-> NodeCount, edges |-> Pick(keep, 1)] :
        keep \in {k \in SUBSET (1..Len(EdgeUniverse)) : Cardinality(k) <= MaxEdges}}

HasTies(g) ==
    \E k \in 1..Len(g.edges) :
        /\ g.edges[k].weight.kind = "Transit"
        /\ \E i, j \in 1..Len(g.edges[k].weight.edge_trips) :
              /\ i # j
              /\ g.edges[k].weight.edge_trips[i].departure_time
                    = g.edges[k].weight.edge_trips[j].departure_time

\* The inputs of a query.  The origin snaps to node 0 or 1, the target to any
\* node; tie_pick only varies where the graph has tied trips.
InitQuery ==
    /\ graph \in Graphs
    /\ tie_pick \in (IF HasTies(graph) THEN 0..1 ELSE {0})
    /\ origin \in {SnappedPoint(n, d) : n \in 0..1, d \in 0..MaxSnap}
    /\ target \in {SnappedPoint(n, d) : n \in GraphNodes(graph), d \in 0..MaxSnap}
    /\ start_time \in 0..MaxStart
    /\ OracleIdle
    /\ LoaderIdle
    /\ StagesIdle

\* ------------------------------------------------------------ engine runs
\* One search, a turn of its loop at a time.
Calls ==
    {[fn |-> "single_source_shortest_path", wheelchair |-> FALSE],
     [fn |-> "shortest_path_weight", wheelchair |-> FALSE],
     [fn |-> "detailed_itinerary", wheelchair |-> FALSE],
     [fn |-> "detailed_itinerary", wheelchair |-> TRUE]}

Init ==
    /\ InitQuery
    /\ call \in Calls
    /\ search = SearchSeed(origin.index, start_time)
    /\ outcome = Pending
    /\ answers = NoAnswers

InDijkstra == call.fn \in {"single_source_shortest_path", "shortest_path_weight"}
InItinerary == call.fn = "detailed_itinerary"
TargetArg == IF call.fn = "single_source_shortest_path" THEN None ELSE Some(target.index)

\* What the running function returns once its loop is over.
Returned(s) ==
    IF call.fn = "single_source_shortest_path"
    THEN [kind |-> "Scores", scores |-> AddDistance(s.scores, origin.distance)]
    ELSE IF call.fn = "shortest_path_weight"
    THEN WeightOf(s.scores, target.index, origin.distance)
    ELSE [kind |-> "Itinerary", itinerary |-> ItineraryOf(s, target.index)]

\* The running function is fn-guarded and its loop is about to take `turn`.
TurnIs(fnGuard, turn) ==
    /\ outcome = Pending
    /\ fnGuard
    /\ NextTurn(search, TargetArg) = turn

engineFrame == <<oracleVars, queryVars, call, answers, loaderVars, stageVars>>

\* time_dependent_dijkstra: a popped node that is already visited.
DijkstraSkip ==
    /\ TurnIs(InDijkstra, "skip")
    /\ search' = DijkstraTurn(graph, TargetArg, search)
    /\ UNCHANGED <<outcome, engineFrame>>

\* time_dependent_dijkstra: the target is popped, the loop breaks and the
\* wrapper returns.
DijkstraBreak ==
    /\ TurnIs(InDijkstra, "break")
    /\ search' = DijkstraTurn(graph, TargetArg, search)
    /\ outcome' = Returned(search')
    /\ UNCHANGED engineFrame

\* time_dependent_dijkstra: a node is popped and its edges relaxed.
DijkstraExpand ==
    /\ TurnIs(InDijkstra, "expand")
    /\ search' = DijkstraTurn(graph, TargetArg, search)
    /\ UNCHANGED <<outcome, engineFrame>>

\* time_dependent_dijkstra: the queue is empty, the wrapper returns.
DijkstraExhausted ==
    /\ TurnIs(InDijkstra, "exhausted")
    /\ search' = DijkstraTurn(graph, TargetArg, search)
    /\ outcome' = Returned(search')
    /\ UNCHANGED engineFrame

\* detailed_itinerary_internal: the same four turns.
ItinerarySkip ==
    /\ TurnIs(InItinerary, "skip")
    /\ search' = ItineraryTurn(graph, TargetArg, call.wheelchair, search)
    /\ UNCHANGED <<outcome, engineFrame>>

ItineraryBreak ==
    /\ TurnIs(InItinerary, "break")
    /\ search' = ItineraryTurn(graph, TargetArg, call.wheelchair, search)
    /\ outcome' = Returned(search')
    /\ UNCHANGED engineFrame

ItineraryExpand ==
    /\ TurnIs(InItinerary, "expand")
    /\ search' = ItineraryTurn(graph, TargetArg, call.wheelchair, search)
    /\ UNCHANGED <<outcome, engineFrame>>

ItineraryExhausted ==
    /\ TurnIs(InItinerary, "exhausted")
    /\ search' = ItineraryTurn(graph, TargetArg, call.wheelchair, search)
    /\ outcome' = Returned(search')
    /\ UNCHANGED engineFrame

Next ==
    \/ DijkstraSkip \/ DijkstraBreak \/ DijkstraExpand \/ DijkstraExhausted
    \/ ItinerarySkip \/ ItineraryBreak \/ ItineraryExpand \/ ItineraryExhausted

Spec == Init /\ [][Next]_vars

\* ------------------------------------------------------------- query runs
\* The public queries, each call one step.
InitQueries ==
    /\ InitQuery
    /\ EngineIdle
    /\ answers = NoAnswers

SingleSourceShortestPath ==
    /\ answers.single_source_shortest_path = Pending
    /\ answers' = [answers EXCEPT !.single_source_shortest_path =
           [kind |-> "Scores",
            scores |-> single_source_shortest_path(graph, origin, start_time)]]
    /\ UNCHANGED <<oracleVars, queryVars, engineVars, loaderVars, stageVars>>

ShortestPathWeight ==
    /\ answers.shortest_path_weight = Pending
    /\ answers' = [answers EXCEPT !.shortest_path_weight =
           shortest_path_weight(graph, origin, target, start_time)]
    /\ UNCHANGED <<oracleVars, queryVars, engineVars, loaderVars, stageVars>>

DetailedItinerary ==
    /\ answers.detailed_itinerary = Pending
    /\ answers' = [answers EXCEPT !.detailed_itinerary =
           [kind |-> "Itinerary",
            itinerary |-> detailed_itinerary(graph, origin, target, start_time, FALSE)]]
    /\ UNCHANGED <<oracleVars, queryVars, engineVars, loaderVars, stageVars>>

DetailedItineraryWheelchair ==
    /\ answers.detailed_itinerary_wheelchair = Pending
    /\ answers' = [answers EXCEPT !.detailed_itinerary_wheelchair =
           [kind |-> "Itinerary",
            itinerary |-> detailed_itinerary(graph, origin, target, start_time, TRUE)]]
    /\ UNCHANGED <<oracleVars, queryVars, engineVars, loaderVars, stageVars>>

NextQueries ==
    \/ SingleSourceShortestPath \/ ShortestPathWeight
    \/ DetailedItinerary \/ DetailedItineraryWheelchair

SpecQueries == InitQueries /\ [][NextQueries]_vars

\* ------------------------------------------------------------- the loader
\* lib.rs Error, the variants the loader raises, and polars' ComputeError.
NegativeWeight(msg) == [kind |-> "NegativeWeight", msg |-> msg]
NodeNotFound(msg) == [kind |-> "NodeNotFound", msg |-> msg]
ComputeError(text) == [kind |-> "ComputeError", text |-> text]

\* Error's Display (#[error("...: {0}")]): the variant's text, then the message.
to_string(err) ==
    [text |-> IF err.kind = "NegativeWeight" THEN "Negative weight detected: {0}"
              ELSE "Node not found for id: {0}",
     arg |-> err.msg]

\* impl From<Error> for PolarsError.
PolarsFromError(err) ==
    IF err.kind = "PolarsError" THEN err.inner ELSE ComputeError(to_string(err))

\* Error::PolarsError(#[from] PolarsError).
ErrorFromPolars(e) == [kind |-> "PolarsError", inner |-> e]

\* add_nodes_to_graph: node_id_map, stop_id -> the index of its node.
NodeIdMap(stops) ==
    [id \in {stops[i] : i \in 1..Len(stops)} |->
        (CHOOSE i \in 1..Len(stops) :
            stops[i] = id /\ \A j \in 1..Len(stops) : stops[j] = id => j <= i) - 1]

\* group.sort(["stop_sequence"]): the rows of one trip in stop_sequence order.
RECURSIVE SortBySequence(_)
SortBySequence(rows) ==
    IF rows = {} THEN <<>>
    ELSE LET first == CHOOSE r \in rows :
                         \A q \in rows : r.stop_sequence <= q.stop_sequence
         IN  <<first>> \o SortBySequence(rows \ {first})

\* A find_edge that never finds: every pair gets an edge of its own.
FindEdgeNever(g, source, tgt) == 0

\* find_edge: the position in g.edges of an edge source -> target, 0 if none.
FindEdge(g, source, tgt) ==
    LET hits == {k \in 1..Len(g.edges) :
                    g.edges[k].source = source /\ g.edges[k].target = tgt}
    IN  IF hits = {} THEN 0 ELSE CHOOSE k \in hits : \A j \in hits : k <= j

\* add_edge_to_graph: [graph, err], err.kind = "none" when it returned Ok.

add_edge_to_graph(g, node_id_map, current_stop, next_stop, depart, arrive, route_id) ==
    LET route == Trip(depart, arrive, route_id, FALSE)
    IN  IF current_stop \notin DOMAIN node_id_map
        THEN [graph |-> g, err |-> NodeNotFound(current_stop)]
        ELSE IF next_stop \notin DOMAIN node_id_map
        THEN [graph |-> g, err |-> NodeNotFound(next_stop)]
        ELSE LET source_node == node_id_map[current_stop]
                 target_node == node_id_map[next_stop]
                 k == FindEdge(g, source_node, target_node)
             IN  IF k # 0
                 THEN [graph |-> [g EXCEPT !.edges[k].weight.edge_trips = Append(@, route)],
                       err |-> NoError]
                 ELSE [graph |-> [g EXCEPT !.edges =
                                     Append(@, Edge(source_node, target_node,
                                                    TransitEdge(<<route>>)))],
                       err |-> NoError]

\* The closure of grouped_df.apply over the windows i, i+1, .. of one trip's
\* sorted rows: [graph, err], err a PolarsError when a `?` returned early.
RECURSIVE Windows(_, _, _, _)
Windows(g, node_id_map, rows, i) ==
    IF i >= Len(rows) THEN [graph |-> g, err |-> NoError]
    ELSE LET cur == rows[i]
             nxt == rows[i + 1]
         IN  IF cur.departure_time > nxt.arrival_time
             THEN [graph |-> g,
                   err |-> PolarsFromError(NegativeWeight(
                       [current_stop |-> cur.stop_id, next_stop |-> nxt.stop_id,
                        depart |-> cur.departure_time, arrive |-> nxt.arrival_time,
                        route |-> cur.route_id]))]
             ELSE LET r == add_edge_to_graph(g, node_id_map, cur.stop_id, nxt.stop_id,
                                             cur.departure_time, nxt.arrival_time,
                                             cur.route_id)
                  IN  IF r.err # NoError
                      THEN [graph |-> r.graph, err |-> PolarsFromError(r.err)]
                      ELSE Windows(r.graph, node_id_map, rows, i + 1)

ApplyGroup(g, stops, rows) == Windows(g, NodeIdMap(stops), SortBySequence(rows), 1)

\* Vec::sort on Trips: a stable sort on departure_time.
RECURSIVE SortTrips(_)
SortTrips(l) ==
    IF l = <<>> THEN <<>>
    ELSE LET k == CHOOSE i \in 1..Len(l) :
                     /\ \A j \in 1..Len(l) : l[i].departure_time <= l[j].departure_time
                     /\ \A j \in 1..(i - 1) : l[j].departure_time > l[i].departure_time
         IN  <<l[k]>> \o SortTrips(SubSeq(l, 1, k - 1) \o SubSeq(l, k + 1, Len(l)))

\* new_graph without its closing loop: the trips stay as they were appended.
SortNoTrips(g) == g

\* new_graph's closing loop: every transit edge's trips sorted.
SortAllTrips(g) ==
    [g EXCEPT !.edges =
        [k \in 1..Len(g.edges) |->
            [g.edges[k] EXCEPT !.weight.edge_trips = SortTrips(@)]]]

\* ------------------------------------------------------------ loader runs
\* Largest time of day (seconds) in a stop-time row.
MaxFeedTime == 1
\* Largest number of trips in the filtered stop-times.
MaxFeedTrips == 2

FeedTimes == 0..MaxFeedTime
TripIds == {"t1", "t2"}
RouteOf == [t \in TripIds |-> IF t = "t1" THEN "r1" ELSE "r2"]
StopPatterns == {<<"A", "B">>, <<"B", "C">>, <<"A", "B", "C">>}

\* The rows one trip can have: one per stop of its pattern.  The loader
\* reads neither the arrival at a trip's first stop nor the departure from
\* its last; they are given the row's other time.
RowsOf(trip_id) ==
    UNION {
        {{[stop_sequence |-> i, stop_id |-> pat[i], route_id |-> RouteOf[trip_id],
           arrival_time |-> times[i][1], departure_time |-> times[i][2]] :
              i \in 1..Len(pat)} :
            times \in {x \in [1..Len(pat) -> FeedTimes \X FeedTimes] :
                          /\ x[1][1] = x[1][2]
                          /\ x[Len(pat)][1] = x[Len(pat)][2]}} :
        pat \in StopPatterns}

Feeds ==
    UNION {[ids -> UNION {RowsOf(t) : t \in TripIds}] :
              ids \in {i \in SUBSET TripIds : i # {} /\ Cardinality(i) <= MaxFeedTrips}}

InitLoader ==
    /\ stops_df \in {<<"A", "B", "C">>, <<"A", "B">>}
    /\ stop_times_df \in {f \in Feeds : \A t \in DOMAIN f : f[t] \in RowsOf(t)}
    /\ applied = {}
    /\ transit_graph = [node_count |-> Len(stops_df), edges |-> <<>>]
    /\ load_result = Pending
    /\ tie_pick = 0
    /\ OracleIdle /\ QueriesIdle /\ EngineIdle /\ answers = NoAnswers
    /\ StagesIdle

loaderFrame == <<oracleVars, queryVars, engineVars, answers, stops_df, stop_times_df,
                stageVars>>

\* grouped_df.apply hands one trip's rows to the closure, which returns Ok.
ApplyGroupOk ==
    /\ load_result = Pending
    /\ \E t \in DOMAIN stop_times_df \ applied :
          LET r == ApplyGroup(transit_graph, stops_df, stop_times_df[t])
          IN  /\ r.err = NoError
              /\ transit_graph' = r.graph
              /\ applied' = applied \cup {t}
    /\ UNCHANGED <<load_result, loaderFrame>>

\* The closure returns Err: apply stops, and the `?` of add_edges_to_graph
\* and of new_graph hand the error, converted, to the caller.
ApplyGroupErr ==
    /\ load_result = Pending
    /\ \E t \in DOMAIN stop_times_df \ applied :
          LET r == ApplyGroup(transit_graph, stops_df, stop_times_df[t])
          IN  /\ r.err # NoError
              /\ transit_graph' = r.graph
              /\ applied' = applied \cup {t}
              /\ load_result' = [kind |-> "Err", error |-> ErrorFromPolars(r.err)]
    /\ UNCHANGED loaderFrame

\* Every group is applied: new_graph sorts the trips and returns the graph.
NewGraphOk ==
    /\ load_result = Pending
    /\ applied = DOMAIN stop_times_df
    /\ transit_graph' = SortAllTrips(transit_graph)
    /\ load_result' = [kind |-> "Ok", graph |-> transit_graph']
    /\ UNCHANGED <<applied, loaderFrame>>

NextLoader == ApplyGroupOk \/ ApplyGroupErr \/ NewGraphOk

SpecLoader == InitLoader /\ [][NextLoader]_vars

\* ------------------------------------------------- claims on the oracle
\* The trips of list l a rider standing at the stop at time t can still board.
Boardable(l, t) == {i \in 1..Len(l) : l[i].departure_time >= t}

\* The boardable trips with the smallest departure.
EarliestBoardable(l, t) ==
    {i \in Boardable(l, t) :
        \A j \in Boardable(l, t) : l[i].departure_time <= l[j].departure_time}

\* C2: on a transit edge (trips sorted by departure) and at any time t,
\* calculate_delay, and calculate_itinerary without the wheelchair
\* requirement, return arrival - t of a trip whose departure is the smallest
\* departure >= t (a trip leaving exactly at t is boarded), and return
\* infinity / NoService exactly when no trip departs at or after t.
C2_EarliestDeparture ==
    edge.kind = "Transit" =>
        LET l == edge.edge_trips IN
        /\ \A t \in DOMAIN delays :
              /\ (delays[t] = INFINITY) <=> (Boardable(l, t) = {})
              /\ Boardable(l, t) # {} =>
                    \E i \in EarliestBoardable(l, t) :
                        delays[t] = (l[i].arrival_time - t) * Scale
        /\ \A k \in DOMAIN segments :
              k[2] = FALSE =>
                  /\ (segments[k] = SegNoService) <=> (Boardable(l, k[1]) = {})
                  /\ Boardable(l, k[1]) # {} =>
                        \E i \in EarliestBoardable(l, k[1]) :
                            segments[k] =
                                SegTransit(l[i], (l[i].arrival_time - k[1]) * Scale)

\* C2 witness: a trip leaving exactly at the time asked was boarded with no
\* wait, and a later call found no service.
C2_Witness ==
    /\ edge.kind = "Transit"
    /\ \E t \in DOMAIN delays :
          /\ \E i \in 1..Len(edge.edge_trips) :
                /\ edge.edge_trips[i].departure_time = t
                /\ delays[t] = (edge.edge_trips[i].arrival_time - t) * Scale
          /\ \E k \in DOMAIN segments :
                k[1] > t /\ k[2] = FALSE /\ segments[k] = SegNoService

\* The time (ticks) at which a rider asking at t reaches the head of the edge.
ArrivalAsked(t) == IF delays[t] = INFINITY THEN INFINITY ELSE t * Scale + delays[t]

\* A FIFO schedule in the glossary's sense: no later-departing trip arrives
\* before an earlier-departing one.
FifoSchedule(l) ==
    \A i, j \in 1..Len(l) :
        l[i].departure_time < l[j].departure_time =>
            l[i].arrival_time <= l[j].arrival_time

\* C6: for every edge and all times t1 <= t2, t1 + cost(e, t1) <=
\* t2 + cost(e, t2), NoService counted as infinity.  Stated here for the
\* edges the claim cannot mean to exclude: walk and transfer edges and
\* transit edges whose schedule is FIFO.
C6_LaterNeverEarlier ==
    (edge.kind = "Transit" => FifoSchedule(edge.edge_trips)) =>
        \A t1, t2 \in DOMAIN delays :
            t1 <= t2 => ArrivalAsked(t1) <= ArrivalAsked(t2)

\* C7: when several trips of an edge leave at the same time, the cost at any
\* time t is the same whichever of them the binary search selects.
C7_TiesIndistinguishable ==
    edge.kind = "Transit" =>
        \A t \in DOMAIN delays :
            \A i \in 1..Len(edge.edge_trips) :
                edge.edge_trips[i].departure_time = t =>
                    delays[t] = (edge.edge_trips[i].arrival_time - t) * Scale

\* ----------------------------------------------- the reference travel time
\* The earliest time (ticks since midnight) a rider standing at the tail of
\* an edge at time T (ticks) can be at its head: a walk takes its weight; on
\* a transit edge the rider may board any trip that has not left yet.
RefArrive(w, T) ==
    IF w.kind = "Transit"
    THEN LET ok == {i \in 1..Len(w.edge_trips) :
                       w.edge_trips[i].departure_time * Scale >= T}
         IN  IF ok = {} THEN INFINITY
             ELSE LET best == CHOOSE i \in ok : \A j \in ok :
                                  w.edge_trips[i].arrival_time
                                      <= w.edge_trips[j].arrival_time
                  IN  w.edge_trips[best].arrival_time * Scale
    ELSE T + w.edge_weight

SetMin(S) == CHOOSE x \in S : \A y \in S : x <= y

\* One round of relaxing every edge, and the rounds needed for the longest
\* simple path.
RefRound(g, arr) ==
    [n \in GraphNodes(g) |->
        SetMin({arr[n]} \cup
               {RefArrive(g.edges[k].weight, arr[g.edges[k].source]) :
                   k \in {k \in 1..Len(g.edges) :
                             /\ g.edges[k].target = n
                             /\ arr[g.edges[k].source] < INFINITY}})]

RECURSIVE RefRounds(_, _, _)
RefRounds(g, arr, rounds) ==
    IF rounds = 0 THEN arr ELSE RefRounds(g, RefRound(g, arr), rounds - 1)

\* The minimum, over all paths from `start` left at t0, of the arrival time
\* at each node (INFINITY where no path can be travelled).
EarliestArrival(g, start, t0) ==
    RefRounds(g, [n \in GraphNodes(g) |-> IF n = start THEN t0 * Scale ELSE INFINITY],
              g.node_count)

\* The minimum travel time (ticks) from `start` left at t0 to node n.
TrueCost(g, start, t0, n) == EarliestArrival(g, start, t0)[n] - t0 * Scale

FifoGraph(g) ==
    \A k \in 1..Len(g.edges) :
        g.edges[k].weight.kind = "Transit" => FifoSchedule(g.edges[k].weight.edge_trips)

\* ------------------------------------------------- claims on the engine
\* C1: on a graph with non-negative costs and FIFO transit edges, whenever
\* time_dependent_dijkstra pops a node that is not yet visited, the popped
\* score is the minimum time-dependent travel time from the origin to it.
C1_PoppedScoreIsEarliestArrival ==
    (/\ InDijkstra
     /\ FifoGraph(graph)
     /\ search.popped.kind = "popped"
     /\ search.popped.fresh)
        => search.popped.item.score
               = TrueCost(graph, origin.index, start_time, search.popped.item.node)

\* ------------------------------------------------ claims on the queries
Weight == answers.shortest_path_weight
OneToAll == answers.single_source_shortest_path
Plain == answers.detailed_itinerary
Wheelchair == answers.detailed_itinerary_wheelchair

Reached(a) == a.itinerary.segments # <<>> \/ origin.index = target.index

\* C3: shortest_path_weight returns Err(MissingValue) exactly when no path
\* from the origin's node to the target's node can be travelled leaving at
\* start_time (stated for graphs with FIFO transit edges).
C3_MissingValueIffNoPath ==
    (Weight.kind # "pending" /\ FifoGraph(graph)) =>
        ((Weight.kind = "Err")
            <=> (EarliestArrival(graph, origin.index, start_time)[target.index]
                    = INFINITY))

\* C4: the map single_source_shortest_path returns holds the origin's node
\* with exactly the origin's snap walk time, and no value of the map is
\* below it.
C4_OriginScoreIsSnapWalk ==
    OneToAll.kind = "Scores" =>
        /\ origin.index \in DOMAIN OneToAll.scores
        /\ OneToAll.scores[origin.index] = origin.distance
        /\ \A n \in DOMAIN OneToAll.scores : OneToAll.scores[n] >= origin.distance

\* C4 witness: a query from an origin with a positive snap walk time that
\* reached other nodes, one of them at no further cost.
C4_Witness ==
    /\ OneToAll.kind = "Scores"
    /\ origin.distance > 0
    /\ Cardinality(DOMAIN OneToAll.scores) >= 3
    /\ \E n \in DOMAIN OneToAll.scores :
          n # origin.index /\ OneToAll.scores[n] = origin.distance
    /\ \E n \in DOMAIN OneToAll.scores : OneToAll.scores[n] > origin.distance

\* C5 as stated: with the target reached and no wheelchair requirement, the
\* itinerary's duration is shortest_path_weight less the origin's and the
\* target's snap walk times.
C5_DurationLessBothSnaps ==
    (Weight.kind = "Ok" /\ Plain.kind = "Itinerary") =>
        duration(Plain.itinerary) = Weight.value - origin.distance - target.distance

\* C5 amended: with the target reached and no wheelchair requirement, the
\* itinerary's duration is shortest_path_weight less the origin's snap walk
\* time (the target's snap walk time is in neither).
C5_DurationLessOriginSnap ==
    (Weight.kind = "Ok" /\ Plain.kind = "Itinerary") =>
        duration(Plain.itinerary) = Weight.value - origin.distance

\* C5 witness: both queries answered for an itinerary of several segments,
\* both snap walk times positive.
C5_Witness ==
    /\ Weight.kind = "Ok"
    /\ Plain.kind = "Itinerary"
    /\ Len(Plain.itinerary.segments) >= 2
    /\ origin.distance > 0
    /\ target.distance > 0
    /\ duration(Plain.itinerary) > 0

SelectedTrip(e, t) ==
    LET r == binary_search_by(e.edge_trips, t)
    IN  IF r.index < Len(e.edge_trips)
        THEN [some |-> TRUE, trip |-> e.edge_trips[r.index + 1]]
        ELSE [some |-> FALSE]

NegativePairs ==
    UNION {LET rows == SortBySequence(stop_times_df[t])
           IN  {<<rows[i], rows[i + 1]>> :
                   i \in {i \in 1..(Len(rows) - 1) :
                             rows[i].departure_time > rows[i + 1].arrival_time}} :
           t \in DOMAIN stop_times_df}

AllStopsKnown ==
    \A t \in DOMAIN stop_times_df : \A r \in stop_times_df[t] :
        \E i \in 1..Len(stops_df) : stops_df[i] = r.stop_id

\* C10: when the stop-times hold an adjacent pair of one trip departing after
\* it arrives (every stop being a known stop), new_graph fails, and the
\* error it returns is of kind NegativeWeight with a message naming both
\* stops of such a pair.
C10_NegativeWeightReturned ==
    (NegativePairs # {} /\ AllStopsKnown /\ load_result # Pending) =>
        /\ load_result.kind = "Err"
        /\ load_result.error.kind = "NegativeWeight"
        /\ \E p \in NegativePairs :
              /\ load_result.error.msg.current_stop = p[1].stop_id
              /\ load_result.error.msg.next_stop = p[2].stop_id

\* ------------------------------------------------------ the street graph
\* lib.rs WALK_SPEED = 1.39 m/s, in hundredths of a metre per second.
WALK_SPEED_PERCENT == 139

\* graph.rs GraphNode::Walk(WalkNode { id, geometry }).
WalkNode(id, geometry) == [kind |-> "Walk", id |-> id, geometry |-> geometry]
\* graph.rs GraphNode::Transit(TransitNode { stop_id, geometry }).
TransitNode(stop_id, geometry) ==
    [kind |-> "Transit", stop_id |-> stop_id, geometry |-> geometry]

\* lib.rs Error::MissingKey(NodeId) and Error::MissingValue(String).
MissingKey(id) == [kind |-> "MissingKey", msg |-> id]
MissingValue(msg) == [kind |-> "MissingValue", msg |-> msg]

\* osm4routing's Node and Edge, the fields create_graph reads.  A point is a
\* position on a line, one unit of it 139 metres long; length() is in metres.
OsmNode(id, coord) == [id |-> id, coord |-> coord]
OsmEdge(source, tgt, length, foot) ==
    [source |-> source, target |-> tgt, length |-> length, foot |-> foot]

\* An f64 holding x whole units, in ticks.
Ticks(x) == x * Scale

\* DiGraph<GraphNode, GraphEdge>: the node weights by index, then the edges.
DiGraph(nodes, es) == [node_count |-> Len(nodes), nodes |-> nodes, edges |-> es]

\* edges.into_iter().filter(foot is Allowed or Unknown).
FootFilter(ways) ==
    SelectSeq(ways, LAMBDA e : e.foot \in {"Allowed", "Unknown"})

\* The loop over nodes: node_indices.entry(id).or_insert_with(add_node)
\* adds one node per OSM id, the first of its rows.
FirstRows(nodes) ==
    SelectSeq([i \in 1..Len(nodes) |-> i],
              LAMBDA i : \A j \in 1..(i - 1) : nodes[j].id # nodes[i].id)

StreetNodes(nodes) ==
    LET rows == FirstRows(nodes)
    IN  [k \in 1..Len(rows) |-> WalkNode(nodes[rows[k]].id, nodes[rows[k]].coord)]

NodeIndices(nodes) ==
    LET rows == FirstRows(nodes)
    IN  [id \in {nodes[i].id : i \in 1..Len(nodes)} |->
            (CHOOSE k \in 1..Len(rows) : nodes[rows[k]].id = id) - 1]

\* The loop over the filtered ways: [graph, err]; each way adds the edge
\* source -> target and the edge target -> source, both with the way's
\* length() as edge_weight.
RECURSIVE AddWays(_, _, _)
AddWays(g, node_indices, ways) ==
    IF ways = <<>> THEN [graph |-> g, err |-> NoError]
    ELSE LET e == Head(ways)
         IN  IF e.source \notin DOMAIN node_indices
             THEN [graph |-> g, err |-> MissingKey(e.source)]
             ELSE IF e.target \notin DOMAIN node_indices
             THEN [graph |-> g, err |-> MissingKey(e.target)]
             ELSE LET source_index == node_indices[e.source]
                      target_index == node_indices[e.target]
                      edge_type == WalkEdge(Ticks(e.length))
                  IN  AddWays([g EXCEPT !.edges = @ \o
                                  <<Edge(source_index, target_index, edge_type),
                                    Edge(target_index, source_index, edge_type)>>],
                              node_indices, Tail(ways))

\* rustworkx bfs_undirected: the nodes joined to `component` by edges taken
\* in either direction.
RECURSIVE bfs_undirected(_, _)
bfs_undirected(g, component) ==
    LET more == component \cup
                {g.edges[k].target : k \in {j \in 1..Len(g.edges) :
                                              g.edges[j].source \in component}} \cup
                {g.edges[k].source : k \in {j \in 1..Len(g.edges) :
                                              g.edges[j].target \in component}}
    IN  IF more = component THEN component ELSE bfs_undirected(g, more)

\* rustworkx connected_components: one set per component, in the order of
\* each component's first node.
RECURSIVE ComponentsFrom(_, _, _)
ComponentsFrom(g, start, seen) ==
    IF start >= g.node_count THEN <<>>
    ELSE IF start \in seen THEN ComponentsFrom(g, start + 1, seen)
    ELSE LET component == bfs_undirected(g, {start})
         IN  <<component>> \o ComponentsFrom(g, start + 1, seen \cup component)

connected_components(g) == ComponentsFrom(g, 0, {})

\* The nodes of the graph whatever their component.
AllNodes(components) == UNION {components[i] : i \in 1..Len(components)}

\* Iterator::max_by_key(|set| set.len()): the last of the largest sets.
LargestComponent(components) ==
    LET k == CHOOSE i \in 1..Len(components) :
                 /\ \A j \in 1..Len(components) :
                        Cardinality(components[j]) <= Cardinality(components[i])
                 /\ \A j \in (i + 1)..Len(components) :
                        Cardinality(components[j]) < Cardinality(components[i])
    IN  components[k]

\* Graph::find_edge(a, b): the first edge to b on a's list of outgoing
\* edges, which runs from the newest edge to the oldest.
find_edge(g, a, b) ==
    LET out == SelectSeq(edges(g, a), LAMBDA k : g.edges[k].target = b)
    IN  out[1]

\* The two loops over &largest_component, which a HashSet hands out in an
\* order of its own, `order`: the nodes are copied, then for every neighbor
\* of every node the edge find_edge returns.
RECURSIVE Flatten(_)
Flatten(seqs) == IF seqs = <<>> THEN <<>> ELSE Head(seqs) \o Flatten(Tail(seqs))

CopyComponent(g, order) ==
    LET new_node_indices == [n \in {order[i] : i \in 1..Len(order)} |->
                                (CHOOSE i \in 1..Len(order) : order[i] = n) - 1]
        copied(node_index) ==
            LET out == edges(g, node_index)
            IN  [i \in 1..Len(out) |->
                    LET neighbor == g.edges[out[i]].target
                    IN  Edge(new_node_indices[node_index], new_node_indices[neighbor],
                             g.edges[find_edge(g, node_index, neighbor)].weight)]
    IN  DiGraph([i \in 1..Len(order) |-> g.nodes[order[i] + 1]],
                Flatten([i \in 1..Len(order) |-> copied(order[i])]))

\* connectors.rs IndexedPoint and build_rtree: one point per node of the
\* graph handed in.
IndexedPoint(index, geometry) == [index |-> index, geometry |-> geometry]

\* Largest coordinate of a stop, a street node or a point to snap.
MaxCoord == 5
Positions == 0..MaxCoord

Abs(x) == IF x < 0 THEN -x ELSE x

\* The points of a tree at the least distance from x.
Nearest(points, x) ==
    {p \in points : \A q \in points : Abs(p.geometry - x) <= Abs(q.geometry - x)}

\* RTree::bulk_load: the points, and for each position the one point that
\* nearest_neighbor returns there; where several are nearest the tree's
\* layout decides, layout[x] standing for the one further along the line.
build_rtree(g, layout) ==
    LET points == {IndexedPoint(Some(i - 1), g.nodes[i].geometry) :
                      i \in 1..Len(g.nodes)}
    IN  [points |-> points,
         nearest |-> [x \in Positions |->
            CHOOSE p \in Nearest(points, x) :
                \A q \in Nearest(points, x) :
                    IF layout[x] THEN <<q.geometry, q.index.node>> = <<p.geometry, p.index.node>>
                                      \/ q.geometry < p.geometry
                                      \/ (q.geometry = p.geometry /\ q.index.node < p.index.node)
                    ELSE <<q.geometry, q.index.node>> = <<p.geometry, p.index.node>>
                         \/ q.geometry > p.geometry
                         \/ (q.geometry = p.geometry /\ q.index.node > p.index.node)]]

\* TransitGraph::from_parts: the graph and Some(rtree).
from_parts(g, rtree) ==
    [node_count |-> g.node_count, nodes |-> g.nodes, edges |-> g.edges,
     rtree |-> [some |-> TRUE, tree |-> rtree]]

\* The orders a HashSet can hand out the nodes of a set in.
Orders(S) ==
    {q \in [1..Cardinality(S) -> S] : \A i, j \in 1..Cardinality(S) : q[i] = q[j] => i = j}

\* streets.rs create_graph up to the component search: [graph, err].
StreetDiGraph(osm) ==
    AddWays(DiGraph(StreetNodes(osm.nodes), <<>>), NodeIndices(osm.nodes),
            FootFilter(osm.ways))

\* streets.rs create_graph: [graph, err]; hash_order lists the node indices
\* in the order a HashSet of them iterates in, layout is the rtree's.
create_graph(osm, hash_order, layout) ==
    LET built == StreetDiGraph(osm)
        components == connected_components(built.graph)
    IN  IF built.err # NoError THEN [graph |-> NoGraph, err |-> built.err]
        ELSE IF components = <<>>
        THEN [graph |-> NoGraph,
              err |-> MissingValue("No connected components found")]
        ELSE LET largest_component == LargestComponent(components)
                 order == SelectSeq(hash_order, LAMBDA n : n \in largest_component)
                 new_graph == CopyComponent(built.graph, order)
             IN  [graph |-> from_parts(new_graph, build_rtree(new_graph, layout)),
                  err |-> NoError]

\* ------------------------------------------------------ the GTFS tables
\* hhmmss_to_sec: "HH:MM:SS", read here as <<hours, minutes, seconds>>.
hhmmss_to_sec(time) == time[1] * 3600 + time[2] * 60 + time[3]

\* filter_by_time: both time columns converted to seconds, then the rows
\* whose departure_time passes gt(departure) & lt(departure + duration),
\* `period` being the duration argument.  Times of day stay far below the
\* range of u32, so the sums do not wrap.
filter_by_time(df, departure, period) ==
    LET converted == {[r EXCEPT !.arrival_time = hhmmss_to_sec(@),
                                !.departure_time = hhmmss_to_sec(@)] : r \in df}
    IN  {r \in converted : /\ r.departure_time > departure
                           /\ r.departure_time < departure + period}

\* prepare_dataframes: the services running on `weekday`, their trips, the
\* stop-time rows of those trips, then filter_by_time.
prepare_dataframes(feed, departure, period, weekday) ==
    LET service_ids == {c.service_id : c \in {d \in feed.calendar : d[weekday] = 1}}
        trips_df == {t \in feed.trips : t.service_id \in service_ids}
        valid_stop_times ==
            {[trip_id |-> st.trip_id, stop_sequence |-> st.stop_sequence,
              stop_id |-> st.stop_id, route_id |-> t.route_id,
              arrival_time |-> st.arrival_time,
              departure_time |-> st.departure_time] :
                <<st, t>> \in {p \in feed.stop_times \X trips_df :
                                  p[1].trip_id = p[2].trip_id}}
    IN  [stops_df |-> feed.stops,
         stop_times_df |-> filter_by_time(valid_stop_times, departure,
                                          departure + period)]

\* stop_times_df.group_by(["trip_id"]): trip_id -> the rows of the trip.
GroupByTrip(df) ==
    [t \in {r.trip_id : r \in df} |->
        {[stop_sequence |-> r.stop_sequence, stop_id |-> r.stop_id,
          route_id |-> r.route_id, arrival_time |-> r.arrival_time,
          departure_time |-> r.departure_time] : r \in {q \in df : q.trip_id = t}}]

\* add_nodes_to_graph: one Transit node per row of stops.txt.
StopNodes(stops) ==
    [i \in 1..Len(stops) |-> TransitNode(stops[i].stop_id, stops[i].stop_coord)]

StopIds(stops) == [i \in 1..Len(stops) |-> stops[i].stop_id]

\* grouped_df.apply over the groups in the order `group_order`, stopping at
\* the first group whose closure returns Err: [graph, err].
RECURSIVE ApplyGroups(_, _, _, _)
ApplyGroups(g, stops, groups, group_order) ==
    IF group_order = <<>> THEN [graph |-> g, err |-> NoError]
    ELSE LET r == ApplyGroup(g, stops, groups[Head(group_order)])
         IN  IF r.err # NoError THEN r
             ELSE ApplyGroups(r.graph, stops, groups, Tail(group_order))

\* loaders.rs new_graph: [graph, err].
new_graph(stops, stop_times, group_order) ==
    LET r == ApplyGroups(DiGraph(StopNodes(stops), <<>>), StopIds(stops),
                         GroupByTrip(stop_times), group_order)
    IN  IF r.err # NoError
        THEN [graph |-> r.graph, err |-> ErrorFromPolars(r.err)]
        ELSE [graph |-> SortAllTrips(r.graph), err |-> NoError]

\* A merge that indexes the stops as well: the rtree rebuilt over every node
\* of the merged graph.
merge_graphs_reindexed(walk_graph, transit) ==
    LET offset == walk_graph.node_count
        nodes == walk_graph.nodes \o transit.nodes
        points == {IndexedPoint(Some(i - 1), nodes[i].geometry) : i \in 1..Len(nodes)}
    IN  [node_count |-> offset + transit.node_count,
         nodes |-> nodes,
         edges |-> walk_graph.edges \o
                   [k \in 1..Len(transit.edges) |->
                       Edge(transit.edges[k].source + offset,
                            transit.edges[k].target + offset,
                            transit.edges[k].weight)],
         rtree |-> [some |-> TRUE,
                    tree |-> [points |-> points,
                              nearest |-> [x \in Positions |->
                                  CHOOSE p \in Nearest(points, x) : TRUE]]]]

\* loaders.rs merge_graphs: the transit graph's nodes appended, then its
\* edges with both ends moved by `offset`.  The rtree is not touched.
merge_graphs(walk_graph, transit) ==
    LET offset == walk_graph.node_count
    IN  [walk_graph EXCEPT
            !.node_count = @ + transit.node_count,
            !.nodes = @ \o transit.nodes,
            !.edges = @ \o [k \in 1..Len(transit.edges) |->
                               Edge(transit.edges[k].source + offset,
                                    transit.edges[k].target + offset,
                                    transit.edges[k].weight)]]

\* ---------------------------------------------------------- connectors
\* Point::haversine_distance, in metres: a unit of the line is 139 m.
haversine_distance(p, q) == 139 * Abs(p - q)

\* metres / WALK_SPEED: seconds, in ticks.
WalkSeconds(metres) == (metres * 100 * Scale) \div WALK_SPEED_PERCENT

\* RTree::nearest_neighbor: None on an empty tree, otherwise a point of the
\* tree at the least distance; which one among several is fixed by the
\* tree's layout, tree.nearest.
nearest_neighbor(rtree, x) ==
    IF rtree.tree.points = {} THEN [some |-> FALSE] ELSE
    [some |-> TRUE, point |-> rtree.tree.nearest[x]]

\* find_nearest_point_and_calculate_distance.
find_nearest_point_and_calculate_distance(point, rtree) ==
    LET nearest_point == nearest_neighbor(rtree, point.geometry)
    IN  IF nearest_point.some
        THEN IF nearest_point.point.index.some
             THEN [kind |-> "Ok", node |-> nearest_point.point.index.node,
                   distance |-> WalkSeconds(haversine_distance(
                                    point.geometry, nearest_point.point.geometry))]
             ELSE [kind |-> "Err", error |-> NodeNotFound(point.geometry)]
        ELSE [kind |-> "Err", error |-> NodeNotFound(point.geometry)]

\* snap_single_point: Ok with the SnappedPoint, its geometry beside it.
snap_single_point(geometry, rtree) ==
    LET found == find_nearest_point_and_calculate_distance(
                     IndexedPoint(None, geometry), rtree)
    IN  IF found.kind = "Err" THEN found
        ELSE [kind |-> "Ok", geometry |-> geometry,
              point |-> SnappedPoint(found.node, found.distance)]

\* SnappedPoint::init.
SnappedPointInit(geometry, g) ==
    IF ~g.rtree.some
    THEN [kind |-> "Err", error |-> MissingValue("Graph spatial index is not set")]
    ELSE snap_single_point(geometry, g.rtree)

\* graph.edges(node).any(|edge| matches!(edge.weight(), Transfer(_))),
\* a node nobody connects twice.
HasTransferNever(g, node) == FALSE

HasTransfer(g, node) ==
    \E k \in 1..Len(g.edges) :
        g.edges[k].source = node /\ g.edges[k].weight.kind = "Transfer"

\* connect_stops_to_streets, the loop from node index `node` on.
RECURSIVE ConnectFrom(_, _)
ConnectFrom(g, node) ==
    IF node >= g.node_count THEN g
    ELSE IF HasTransfer(g, node) THEN ConnectFrom(g, node + 1)
    ELSE LET weight == g.nodes[node + 1]
             found == find_nearest_point_and_calculate_distance(
                          IndexedPoint(Some(node), weight.geometry), g.rtree)
         IN  IF weight.kind = "Transit" /\ found.kind = "Ok"
             THEN LET e == TransferEdge(found.distance)
                  IN  ConnectFrom([g EXCEPT !.edges = @ \o
                                      <<Edge(node, found.node, e),
                                        Edge(found.node, node, e)>>], node + 1)
             ELSE ConnectFrom(g, node + 1)

connect_stops_to_streets(g) == ConnectFrom(g, 0)

\* ------------------------------------------------------- graph assembly
\* TransitGraph::from: [graph, err].  The street graph is built on a thread
\* of its own and joined after the feed is loaded, so an error of the feed
\* is returned before an error of the streets is looked at.
from(osm, feed_args, hash_order, layout, group_order) ==
    LET dfs == prepare_dataframes(feed_args.gtfs, feed_args.departure,
                                  feed_args.duration, feed_args.weekday)
        initial_graph == new_graph(dfs.stops_df, dfs.stop_times_df, group_order)
        walk_graph == create_graph(osm, hash_order, layout)
    IN  IF initial_graph.err # NoError
        THEN [graph |-> NoGraph, err |-> initial_graph.err]
        ELSE IF walk_graph.err # NoError
        THEN [graph |-> NoGraph, err |-> walk_graph.err]
        ELSE [graph |-> connect_stops_to_streets(
                            merge_graphs(walk_graph.graph, initial_graph.graph)),
              err |-> NoError]

\* An extend that merges what new_graph built before looking at its result.
extend_with_transit_eager(self, feed_args, group_order) ==
    LET dfs == prepare_dataframes(feed_args.gtfs, feed_args.departure,
                                  feed_args.duration, feed_args.weekday)
        initial_graph == new_graph(dfs.stops_df, dfs.stop_times_df, group_order)
    IN  IF initial_graph.err # NoError
        THEN [graph |-> merge_graphs(self, initial_graph.graph),
              err |-> initial_graph.err]
        ELSE [graph |-> connect_stops_to_streets(
                            merge_graphs(self, initial_graph.graph)),
              err |-> NoError]

\* TransitGraph::extend_with_transit: [graph, err], graph being self after
\* the call.
extend_with_transit(self, feed_args, group_order) ==
    LET dfs == prepare_dataframes(feed_args.gtfs, feed_args.departure,
                                  feed_args.duration, feed_args.weekday)
        initial_graph == new_graph(dfs.stops_df, dfs.stop_times_df, group_order)
    IN  IF initial_graph.err # NoError
        THEN [graph |-> self, err |-> initial_graph.err]
        ELSE [graph |-> connect_stops_to_streets(
                            merge_graphs(self, initial_graph.graph)),
              err |-> NoError]

\* The trip groups of a feed under its arguments, which group_by hands out
\* in an order of its own.
GroupKeys(feed_args) ==
    DOMAIN GroupByTrip(prepare_dataframes(feed_args.gtfs, feed_args.departure,
                                          feed_args.duration,
                                          feed_args.weekday).stop_times_df)

\* ----------------------------------------------------------- build runs
\* Largest number of ways in the OSM extract.
MaxWays == 3
\* Largest number of extend_with_transit calls on one graph.
MaxExtends == 1

\* The street nodes' positions.
NodeCoord == <<0, 2, 3, 5>>

WayUniverse ==
    <<OsmEdge(1, 2, 139, "Allowed"),
      OsmEdge(1, 2, 278, "Unknown"),
      OsmEdge(2, 3, 139, "Allowed"),
      OsmEdge(3, 4, 139, "Forbidden"),
      OsmEdge(4, 3, 278, "Allowed")>>

\* The sub-sequence of WayUniverse at the positions in `keep`.
RECURSIVE SelectWays(_, _)
SelectWays(keep, i) ==
    IF i > Len(WayUniverse) THEN <<>>
    ELSE (IF i \in keep THEN <<WayUniverse[i]>> ELSE <<>>) \o SelectWays(keep, i + 1)

\* The reader returns the ways and the nodes they run between.
PbfOf(keep) ==
    LET ways == SelectWays(keep, 1)
        ids == {ways[i].source : i \in 1..Len(ways)} \cup
               {ways[i].target : i \in 1..Len(ways)}
        sorted == SelectSeq([i \in 1..Len(NodeCoord) |-> i], LAMBDA id : id \in ids)
    IN  [nodes |-> [i \in 1..Len(sorted) |-> OsmNode(sorted[i], NodeCoord[sorted[i]])],
         ways |-> ways]

PbfInputs ==
    {PbfOf(keep) : keep \in {k \in SUBSET (1..Len(WayUniverse)) :
                                Cardinality(k) <= MaxWays}}

\* The rtree layouts: a choice at each position halfway between two street
\* nodes, the only positions where it is looked at.
TiePositions ==
    {x \in Positions : \E i, j \in 1..Len(NodeCoord) :
        i # j /\ Abs(NodeCoord[i] - x) = Abs(NodeCoord[j] - x)}
Layouts == {[x \in Positions |-> x \in S] : S \in SUBSET TiePositions}

Hms(seconds) == <<0, seconds \div 60, seconds % 60>>
StopTime(trip_id, stop_sequence, stop_id, arrive, depart) ==
    [trip_id |-> trip_id, stop_sequence |-> stop_sequence, stop_id |-> stop_id,
     arrival_time |-> Hms(arrive), departure_time |-> Hms(depart)]
Calendar == {[service_id |-> "weekdays", monday |-> 1, sunday |-> 0],
             [service_id |-> "sundays", monday |-> 0, sunday |-> 1]}

\* Two trips A -> B on weekdays, one trip B -> A on sundays.
GtfsNorth ==
    [stops |-> <<[stop_id |-> "A", stop_coord |-> 1], [stop_id |-> "B", stop_coord |-> 3]>>,
     trips |-> {[trip_id |-> "t1", route_id |-> "r1", service_id |-> "weekdays"],
                [trip_id |-> "t2", route_id |-> "r2", service_id |-> "weekdays"],
                [trip_id |-> "t3", route_id |-> "r3", service_id |-> "sundays"]},
     calendar |-> Calendar,
     stop_times |-> {StopTime("t1", 1, "A", 2, 2), StopTime("t1", 2, "B", 3, 3),
                     StopTime("t2", 1, "A", 1, 1), StopTime("t2", 2, "B", 61, 61),
                     StopTime("t3", 1, "B", 1, 1), StopTime("t3", 2, "A", 2, 2)}]

\* One weekday trip C -> D; stop A appears in this feed as well.
GtfsSouth ==
    [stops |-> <<[stop_id |-> "C", stop_coord |-> 4], [stop_id |-> "D", stop_coord |-> 5],
                 [stop_id |-> "A", stop_coord |-> 1]>>,
     trips |-> {[trip_id |-> "t4", route_id |-> "r4", service_id |-> "weekdays"]},
     calendar |-> Calendar,
     stop_times |-> {StopTime("t4", 1, "C", 1, 1), StopTime("t4", 2, "D", 2, 2),
                     StopTime("t4", 3, "A", 3, 3)}]

\* A trip that arrives before it leaves.
GtfsBroken ==
    [stops |-> <<[stop_id |-> "A", stop_coord |-> 1], [stop_id |-> "B", stop_coord |-> 3]>>,
     trips |-> {[trip_id |-> "t5", route_id |-> "r5", service_id |-> "weekdays"]},
     calendar |-> Calendar,
     stop_times |-> {StopTime("t5", 1, "A", 3, 3), StopTime("t5", 2, "B", 2, 4)}]

\* A trip that calls at a stop stops.txt does not list, after a pair of
\* stops it does.
GtfsStray ==
    [stops |-> <<[stop_id |-> "A", stop_coord |-> 1], [stop_id |-> "B", stop_coord |-> 3]>>,
     trips |-> {[trip_id |-> "t6", route_id |-> "r6", service_id |-> "weekdays"]},
     calendar |-> Calendar,
     stop_times |-> {StopTime("t6", 1, "A", 1, 1), StopTime("t6", 2, "B", 2, 2),
                     StopTime("t6", 3, "Z", 3, 3)}]

FeedArgs(gtfs, departure, period, weekday) ==
    [gtfs |-> gtfs, departure |-> departure, duration |-> period, weekday |-> weekday]

FeedArgsInputs ==
    {FeedArgs(GtfsNorth, 0, 100, "monday"), FeedArgs(GtfsNorth, 0, 100, "sunday"),
     FeedArgs(GtfsNorth, 1, 1, "monday"), FeedArgs(GtfsSouth, 0, 100, "monday"),
     FeedArgs(GtfsBroken, 0, 100, "monday"), FeedArgs(GtfsStray, 0, 100, "monday")}

InitBuild ==
    /\ pbf \in PbfInputs
    /\ city = Pending
    /\ snapped = Pending
    /\ rebuilt = Pending
    /\ replies = Pending
    /\ tie_pick = 0
    /\ OracleIdle /\ QueriesIdle /\ EngineIdle /\ answers = NoAnswers /\ LoaderIdle
    /\ PrepareIdle /\ BatchIdle

buildFrame == <<oracleVars, queryVars, engineVars, answers, loaderVars, pbf, prepareVars,
                rebuilt, replies,
                batchVars>>

\* TransitGraph::from(feed_args).
From ==
    /\ city = Pending
    /\ \E feed_args \in FeedArgsInputs, layout \in Layouts :
       \E hash_order \in Orders(GraphNodes(StreetDiGraph(pbf).graph)),
          group_order \in Orders(GroupKeys(feed_args)) :
          LET r == from(pbf, feed_args, hash_order, layout, group_order)
          IN  city' = IF r.err = NoError
                      THEN [kind |-> "Ok", graph |-> r.graph, extended |-> 0]
                      ELSE [kind |-> "Err", error |-> r.err]
    /\ UNCHANGED <<snapped, buildFrame>>

\* graph.extend_with_transit(feed_args): the graph is what the call left of
\* it, `extended` counts the calls that returned Ok.
ExtendWithTransit ==
    /\ city.kind = "Ok"
    /\ city.extended < MaxExtends
    /\ \E feed_args \in FeedArgsInputs :
       \E group_order \in Orders(GroupKeys(feed_args)) :
          LET r == extend_with_transit(city.graph, feed_args, group_order)
          IN  city' = [city EXCEPT !.graph = r.graph,
                                   !.extended = IF r.err = NoError THEN @ + 1 ELSE @]
    /\ UNCHANGED <<snapped, buildFrame>>

\* SnappedPoint::init(geometry, &graph).
SnapPoint ==
    /\ city.kind = "Ok"
    /\ \E geometry \in Positions : snapped' = SnappedPointInit(geometry, city.graph)
    /\ UNCHANGED <<city, buildFrame>>

NextBuild == From \/ ExtendWithTransit \/ SnapPoint

SpecBuild == InitBuild /\ [][NextBuild]_vars

\* ------------------------------------------------- claims on the assembly
\* The transit edges of the assembled graph.
TransitEdgesOf(g) == {k \in 1..Len(g.edges) : g.edges[k].weight.kind = "Transit"}

\* C11: after TransitGraph::from, and after every extend_with_transit that
\* returned Ok, the trips of every TransitEdge of the graph are in
\* non-decreasing order of departure_time.
C11_TripsSortedAfterBuild ==
    city.kind = "Ok" =>
        \A k \in TransitEdgesOf(city.graph) :
            SortedByDeparture(city.graph.edges[k].weight.edge_trips)

\* A graph extended once that holds an edge with two trips of different
\* departure, which the loader met in either order.
C11_Witness ==
    /\ city.kind = "Ok"
    /\ city.extended >= 1
    /\ \E k \in TransitEdgesOf(city.graph) :
          LET trips == city.graph.edges[k].weight.edge_trips
          IN  Len(trips) >= 2 /\ trips[1].departure_time < trips[2].departure_time

\* The stops of the assembled graph, and the Transfer edges leaving and
\* entering a node.
Stops(g) == {n \in GraphNodes(g) : g.nodes[n + 1].kind = "Transit"}
TransfersOut(g, n) ==
    {k \in 1..Len(g.edges) : g.edges[k].source = n /\ g.edges[k].weight.kind = "Transfer"}
TransfersIn(g, n) ==
    {k \in 1..Len(g.edges) : g.edges[k].target = n /\ g.edges[k].weight.kind = "Transfer"}

\* C12: in the graph from/extend_with_transit leave behind, every stop has
\* exactly one outgoing and exactly one incoming Transfer edge, and the two
\* carry the same weight; a stop connected by an earlier call is not
\* connected again.
C12_OneTransferPairPerStop ==
    city.kind = "Ok" =>
        \A n \in Stops(city.graph) :
            /\ Cardinality(TransfersOut(city.graph, n)) = 1
            /\ Cardinality(TransfersIn(city.graph, n)) = 1
            /\ \A k \in TransfersOut(city.graph, n), j \in TransfersIn(city.graph, n) :
                  city.graph.edges[k].weight = city.graph.edges[j].weight

\* A graph extended once: it holds the stops of two feeds, those of the
\* first met again by the second connect_stops_to_streets.
C12_Witness ==
    /\ city.kind = "Ok"
    /\ city.extended >= 1
    /\ Cardinality(Stops(city.graph)) >= 4
    /\ \E n \in Stops(city.graph) : \E k \in TransfersOut(city.graph, n) :
          city.graph.edges[k].weight.edge_weight > 0

\* --------------------------------------------------------- prepare runs
\* Largest time of day (seconds) in a row of stop_times.txt.
MaxClock == 4
\* Largest departure argument and largest duration argument.
MaxDeparture == 2
MaxDuration == 2

\* A feed of two stops: a weekday trip t1 from A to B and a sunday trip t3
\* that calls at B.
GtfsOf(leave_a, leave_b, leave_sunday) ==
    [stops |-> <<[stop_id |-> "A", stop_coord |-> 1], [stop_id |-> "B", stop_coord |-> 3]>>,
     trips |-> {[trip_id |-> "t1", route_id |-> "r1", service_id |-> "weekdays"],
                [trip_id |-> "t3", route_id |-> "r3", service_id |-> "sundays"]},
     calendar |-> Calendar,
     stop_times |-> {StopTime("t1", 1, "A", leave_a, leave_a),
                     StopTime("t1", 2, "B", leave_b, leave_b),
                     StopTime("t3", 1, "B", leave_sunday, leave_sunday)}]

InitPrepare ==
    /\ gtfs_args \in
          {FeedArgs(GtfsOf(a, b, c), departure, period, weekday) :
              a \in 0..MaxClock, b \in 0..MaxClock, c \in {0, MaxClock},
              departure \in 0..MaxDeparture, period \in 0..MaxDuration,
              weekday \in {"monday", "sunday"}}
    /\ prepared = Pending
    /\ tie_pick = 0
    /\ OracleIdle /\ QueriesIdle /\ EngineIdle /\ answers = NoAnswers /\ LoaderIdle
    /\ BuildIdle /\ BatchIdle

\* prepare_dataframes(path, departure, duration, weekday).
PrepareDataframes ==
    /\ prepared = Pending
    /\ prepared' = [kind |-> "Ok",
                    dfs |-> prepare_dataframes(gtfs_args.gtfs, gtfs_args.departure,
                                               gtfs_args.duration, gtfs_args.weekday)]
    /\ UNCHANGED <<oracleVars, queryVars, engineVars, answers, loaderVars, buildVars,
                   gtfs_args, batchVars>>

NextPrepare == PrepareDataframes

SpecPrepare == InitPrepare /\ [][NextPrepare]_vars

\* ---------------------------------------------- claims on the time filter
\* The departure times (seconds) of the rows of the feed whose trip runs on
\* the weekday asked for.
RunningDepartures ==
    {hhmmss_to_sec(st.departure_time) :
        st \in {r \in gtfs_args.gtfs.stop_times :
                  \E t \in gtfs_args.gtfs.trips, c \in gtfs_args.gtfs.calendar :
                      /\ t.trip_id = r.trip_id /\ c.service_id = t.service_id
                      /\ c[gtfs_args.weekday] = 1}}

KeptDepartures == {r.departure_time : r \in prepared.dfs.stop_times_df}

\* C13: the stop-time rows kept for graph construction are exactly those
\* with departure <= departure_time < departure + duration.
C13_WindowIsDepartureToDuration ==
    prepared # Pending =>
        KeptDepartures =
            {t \in RunningDepartures :
                gtfs_args.departure <= t /\ t < gtfs_args.departure + gtfs_args.duration}

\* ------------------------------------------------ claims on the streets
\* The Walk edges of g from the street node with OSM id a to the one with
\* id b that carry weight w.
WalkEdgesBetween(g, a, b, w) ==
    {k \in 1..Len(g.edges) :
        /\ g.edges[k].weight = WalkEdge(w)
        /\ g.nodes[g.edges[k].source + 1] = WalkNode(a, NodeCoord[a])
        /\ g.nodes[g.edges[k].target + 1] = WalkNode(b, NodeCoord[b])}

\* The OSM ids of the street nodes of g.
StreetIds(g) == {g.nodes[i].id : i \in {j \in 1..Len(g.nodes) : g.nodes[j].kind = "Walk"}}

\* The weights of the Walk edges of g.
WalkWeights(g) ==
    {g.edges[k].weight.edge_weight :
        k \in {j \in 1..Len(g.edges) : g.edges[j].weight.kind = "Walk"}}

\* C14: the copy of the largest component keeps the multiset of
\* (tail, head, weight) Walk edges among the surviving nodes: between any
\* two of them, each weight is carried by as many edges after the copy as
\* before it.
C14_CopyKeepsWalkEdgeMultiset ==
    city.kind = "Ok" =>
        LET before == StreetDiGraph(pbf).graph
        IN  \A a, b \in StreetIds(city.graph) :
                \A w \in WalkWeights(before) \cup WalkWeights(city.graph) :
                    Cardinality(WalkEdgesBetween(city.graph, a, b, w)) =
                    Cardinality(WalkEdgesBetween(before, a, b, w))

\* C15: for every way open to pedestrians (foot allowed or unknown) of
\* length L between two surviving nodes u and v, the graph holds a Walk edge
\* u -> v and a Walk edge v -> u, each of weight L / 1.39 seconds.
C15_WalkWeightIsLengthOverSpeed ==
    city.kind = "Ok" =>
        \A i \in 1..Len(pbf.ways) :
            LET way == pbf.ways[i]
            IN  (/\ way.foot \in {"Allowed", "Unknown"}
                 /\ {way.source, way.target} \subseteq StreetIds(city.graph))
                => /\ WalkEdgesBetween(city.graph, way.source, way.target,
                                       WalkSeconds(way.length)) # {}
                   /\ WalkEdgesBetween(city.graph, way.target, way.source,
                                       WalkSeconds(way.length)) # {}

\* The nodes joined to the set S by Walk and Transfer edges, taken in
\* either direction.
RECURSIVE OnFoot(_, _)
OnFoot(g, S) ==
    LET walkable == {k \in 1..Len(g.edges) : g.edges[k].weight.kind \in {"Walk", "Transfer"}}
        more == S \cup {g.edges[k].target : k \in {j \in walkable : g.edges[j].source \in S}}
                  \cup {g.edges[k].source : k \in {j \in walkable : g.edges[j].target \in S}}
    IN  IF more = S THEN S ELSE OnFoot(g, more)

\* C16: in the assembled graph the street nodes and the stops, joined by
\* the Walk and Transfer edges, form a single connected component.
C16_PedestrianGraphConnected ==
    city.kind = "Ok" => OnFoot(city.graph, {0}) = GraphNodes(city.graph)

\* An extract whose streets fall into several components, assembled with
\* the stops of two feeds.
C16_Witness ==
    /\ city.kind = "Ok"
    /\ city.extended >= 1
    /\ Len(connected_components(StreetDiGraph(pbf).graph)) >= 2
    /\ Cardinality(Stops(city.graph)) >= 4

\* C17: every SnappedPoint that SnappedPoint::init returns has a distance
\* of at least 0 and the index of an existing street node, never of a stop,
\* however many stops extend_with_transit has added.
C17_SnapsToStreetNode ==
    (city.kind = "Ok" /\ snapped # Pending /\ snapped.kind = "Ok") =>
        /\ snapped.point.distance >= 0
        /\ snapped.point.index \in GraphNodes(city.graph)
        /\ city.graph.nodes[snapped.point.index + 1].kind = "Walk"

\* A point snapped on an extended graph that has a stop at the point's very
\* position, and no street node there.
C17_Witness ==
    /\ city.kind = "Ok"
    /\ city.extended >= 1
    /\ snapped # Pending
    /\ snapped.kind = "Ok"
    /\ snapped.point.distance > 0
    /\ \E n \in Stops(city.graph) : city.graph.nodes[n + 1].geometry = snapped.geometry

\* -------------------------------------------------------- the OD matrix
\* src/algo.rs PyPoint: an id and a position.
PyPoint(id, x) == [id |-> id, x |-> x]

\* nodes.into_iter().map(snap_point ..).collect::<Result<_, _>>(): the points
\* snapped in order up to the first Err, which is returned; otherwise every
\* (id, SnappedPoint).
RECURSIVE SnapAll(_, _)
SnapAll(g, nodes) ==
    IF nodes = <<>> THEN [kind |-> "Ok", points |-> <<>>]
    ELSE LET first == SnappedPointInit(Head(nodes).x, g)
         IN  IF first.kind = "Err" THEN first
             ELSE LET rest == SnapAll(g, Tail(nodes))
                  IN  IF rest.kind = "Err" THEN rest
                      ELSE [kind |-> "Ok",
                            points |-> <<[id |-> Head(nodes).id,
                                          snapped |-> first.point]>> \o rest.points]

\* The last position of `points` at which field `key` has value v.
LastWith(points, key, v) ==
    CHOOSE i \in 1..Len(points) :
        /\ key[i] = v
        /\ \A j \in (i + 1)..Len(points) : key[j] # v

\* id_map: snapped node index -> id, collected into a HashMap in order, a
\* later point replacing an earlier one with the same node index.
IdMap(points) ==
    LET index == [i \in 1..Len(points) |-> points[i].snapped.index]
    IN  [n \in {index[i] : i \in 1..Len(points)} |->
            points[LastWith(points, index, n)].id]

\* A row's closure after its search: of the entries (k, v) of the result,
\* those whose node k is a key of id_map, under the id found there.  (Ids
\* are distinct, so no two nodes share an id.)
OdRow(result, id_map) ==
    LET hits == DOMAIN result \cap DOMAIN id_map
    IN  [dest \in {id_map[k] : k \in hits} |->
            result[CHOOSE k \in hits : id_map[k] = dest]]

\* The rows (id, shortest_paths) collected into the outer HashMap.
OdMatrix(points, rows_by_index) ==
    LET ids == [i \in 1..Len(points) |-> points[i].id]
    IN  [id \in {ids[i] : i \in 1..Len(points)} |->
            rows_by_index[LastWith(points, ids, id)]]

\* The locals of worker thread w, which no other thread has a reference to.
FirstWorkerLocals(ws, w) == ws[1]

WorkerLocals(ws, w) == ws[w]

\* ------------------------------------------------------------ batch runs
\* Number of worker threads of the pool.
NumWorkers == 2
\* Largest number of points in a batch.
MaxPoints == 2

\* The assembled graph of the extract with the ways `keep`, with the
\* weekday trips of the northern feed.
CityOf(keep, hash_order, layout) ==
    from(PbfOf(keep), FeedArgs(GtfsNorth, 0, 100, "monday"), hash_order, layout,
         <<"t1", "t2">>).graph

Cities ==
    {CityOf({1, 3}, <<0, 1, 2>>, layout) : layout \in Layouts} \cup
    {CityOf({1, 2}, <<1, 0>>, layout) : layout \in Layouts}

\* Where the points of a batch lie.
PointPositions == {1, 2, 4}
PointIds == <<"p1", "p2", "p3", "p4">>

PointInputs ==
    UNION {{[i \in 1..n |-> PyPoint(PointIds[i], xs[i])] :
               xs \in [1..n -> PointPositions]} : n \in 0..MaxPoints}

IdleWorker == [row |-> 0, search |-> NoSearch, stage |-> "idle"]

InitBatch ==
    /\ graph \in Cities
    /\ start_time \in 0..MaxStart
    /\ tie_pick = 0 /\ origin = NoPoint /\ target = NoPoint
    /\ workers = [w \in 1..NumWorkers |-> IdleWorker]
    /\ done_rows = EmptyMap
    /\ collector = NoCollector
    /\ batch_result = Pending
    /\ OracleIdle /\ EngineIdle /\ answers = NoAnswers /\ LoaderIdle
    /\ BuildIdle /\ PrepareIdle

InitOD ==
    /\ InitBatch
    /\ batch \in {[fn |-> "calculate_od_matrix", phase |-> "called", nodes |-> nodes,
                   snapped_points |-> <<>>, id_map |-> EmptyMap] :
                     nodes \in PointInputs}

batchFrame == <<oracleVars, queryVars, engineVars, answers, loaderVars, buildVars,
                prepareVars>>

\* calculate_od_matrix up to par_iter: the points snapped one after the
\* other, then id_map.
OdSnap ==
    /\ batch.fn = "calculate_od_matrix"
    /\ batch.phase = "called"
    /\ LET r == SnapAll(graph, batch.nodes)
       IN  IF r.kind = "Err"
           THEN /\ batch' = [batch EXCEPT !.phase = "returned"]
                /\ batch_result' = r
           ELSE /\ batch' = [batch EXCEPT !.phase = "rows",
                                          !.snapped_points = r.points,
                                          !.id_map = IdMap(r.points)]
                /\ batch_result' = batch_result
    /\ UNCHANGED <<workers, done_rows, collector, batchFrame>>

\* The rows a worker has taken or finished.
TakenRows == DOMAIN done_rows \cup {workers[w].row : w \in 1..NumWorkers}

\* A worker thread takes a row nobody has taken and enters its closure:
\* single_source_shortest_path_weight seeds its own search.
OdTake(w) ==
    /\ batch.fn = "calculate_od_matrix"
    /\ batch.phase = "rows"
    /\ WorkerLocals(workers, w).row = 0
    /\ \E i \in (1..Len(batch.snapped_points)) \ TakenRows :
          workers' = [workers EXCEPT ![w] =
              [row |-> i,
               search |-> SearchSeed(batch.snapped_points[i].snapped.index, start_time),
               stage |-> "run"]]
    /\ UNCHANGED <<batch, done_rows, collector, batch_result, batchFrame>>

\* One turn of the loop of the worker's time_dependent_dijkstra.
WorkerTurn(w) ==
    /\ batch.phase = "rows"
    /\ workers[w].row # 0
    /\ NextTurn(WorkerLocals(workers, w).search, None) # "exhausted"
    /\ workers' = [workers EXCEPT ![w].search =
                      DijkstraTurn(graph, None, WorkerLocals(workers, w).search)]
    /\ UNCHANGED <<batch, done_rows, collector, batch_result, batchFrame>>

\* The worker's search is over: the snap distance is added, the row is
\* filled through id_map and handed to the collector.
OdFinish(w) ==
    /\ batch.fn = "calculate_od_matrix"
    /\ batch.phase = "rows"
    /\ workers[w].row # 0
    /\ NextTurn(WorkerLocals(workers, w).search, None) = "exhausted"
    /\ LET i == workers[w].row
           node == batch.snapped_points[i].snapped
           result == AddDistance(WorkerLocals(workers, w).search.scores, node.distance)
       IN  done_rows' = done_rows @@ (i :> OdRow(result, batch.id_map))
    /\ workers' = [workers EXCEPT ![w] = IdleWorker]
    /\ UNCHANGED <<batch, collector, batch_result, batchFrame>>

\* Every row is in: collect() builds the outer map and the call returns it.
OdCollect ==
    /\ batch.fn = "calculate_od_matrix"
    /\ batch.phase = "rows"
    /\ DOMAIN done_rows = 1..Len(batch.snapped_points)
    /\ batch' = [batch EXCEPT !.phase = "returned"]
    /\ batch_result' = [kind |-> "Ok",
                        od_matrix |-> OdMatrix(batch.snapped_points, done_rows)]
    /\ UNCHANGED <<workers, done_rows, collector, batchFrame>>

NextOD ==
    \/ OdSnap
    \/ \E w \in 1..NumWorkers : OdTake(w)
    \/ \E w \in 1..NumWorkers : WorkerTurn(w)
    \/ \E w \in 1..NumWorkers : OdFinish(w)
    \/ OdCollect

SpecOD == InitOD /\ [][NextOD]_vars

\* ------------------------------------------------ claims on the OD matrix
\* C18: for N points with pairwise distinct ids on a connected graph,
\* calculate_od_matrix returns N rows of N entries each, and the entry
\* [id][id] of every row is the snap walk time of the point with that id,
\* also when several points snap to the same street node.
C18_MatrixIsSquareWithSnapDiagonal ==
    (batch # Pending /\ batch.fn = "calculate_od_matrix" /\ batch_result.kind = "Ok") =>
        LET n == Len(batch.nodes)
            m == batch_result.od_matrix
        IN  /\ Cardinality(DOMAIN m) = n
            /\ \A i \in 1..n :
                  LET id == batch.nodes[i].id
                  IN  /\ id \in DOMAIN m
                      /\ Cardinality(DOMAIN m[id]) = n
                      /\ id \in DOMAIN m[id]
                      /\ m[id][id] = SnappedPointInit(batch.nodes[i].x, graph).point.distance

\* The rows as one thread computes them, one after the other in the order
\* of the points.
SequentialRows ==
    LET points == SnapAll(graph, batch.nodes).points
    IN  [i \in 1..Len(points) |->
            OdRow(single_source_shortest_path(graph, points[i].snapped, start_time),
                  IdMap(points))]

SequentialOdMatrix == OdMatrix(SnapAll(graph, batch.nodes).points, SequentialRows)

\* The states the search that starts in state s goes through.
RECURSIVE SearchStates(_)
SearchStates(s) ==
    IF NextTurn(s, None) = "exhausted" THEN {s}
    ELSE {s} \cup SearchStates(DijkstraTurn(graph, None, s))

\* C19: however the turns of the worker threads interleave, every worker's
\* search goes through the states it goes through when run alone, every
\* row handed in is the row one thread computes, and the matrix returned
\* is the sequential one.
C19_ParallelEqualsSequential ==
    (batch # Pending /\ batch.fn = "calculate_od_matrix" /\ batch.phase # "called") =>
        /\ \A w \in 1..NumWorkers :
              workers[w].row # 0 =>
                  workers[w].search \in
                      SearchStates(SearchSeed(
                          batch.snapped_points[workers[w].row].snapped.index, start_time))
        /\ \A i \in DOMAIN done_rows : done_rows[i] = SequentialRows[i]
        /\ batch_result.kind = "Ok" => batch_result.od_matrix = SequentialOdMatrix

\* Every worker thread is in the middle of the search of a row of its own.
C19_Witness ==
    /\ batch # Pending
    /\ batch.fn = "calculate_od_matrix"
    /\ \A w \in 1..NumWorkers :
          /\ workers[w].row # 0
          /\ workers[w].search.visited # {}
          /\ NextTurn(workers[w].search, None) # "exhausted"

\* ------------------------------------------------------- bulk isochrones
\* isochrone_internal's node_indices: the nodes whose cost is within cutoff.
\* The geometry of an Isochrone is built from the edges among them; it is
\* kept here as that set of nodes.
WithinCutoffStrict(costs, cutoff) == {n \in DOMAIN costs : costs[n] < cutoff}

WithinCutoff(costs, cutoff) == {n \in DOMAIN costs : costs[n] <= cutoff}

Isochrone(id, geometry) == [id |-> id, geometry |-> geometry]

\* The Err a `?` of the row's closure returns when the geometry library
\* rejects the row's geometry.
RowError(id) == [kind |-> "Err", error |-> [kind |-> "GeometryError", msg |-> id]]

\* The closure of a row: isochrone_internal and the conversions.
IsochroneRow(g, source, t0, cutoff, rejected) ==
    IF rejected THEN RowError(source.id)
    ELSE [kind |-> "Ok",
          isochrone |-> Isochrone(source.id,
                                  WithinCutoff(single_source_shortest_path(
                                                   g, source.snapped, t0), cutoff))]

\* The collector of collect::<Result<Vec<_>, Error>>(): an Err is saved only
\* while no error is saved yet.
SaveLastError(saved, error) == error

SaveError(saved, error) == IF saved = NoError THEN error ELSE saved

\* What collect() returns once the workers are done: the saved error if
\* there is one, otherwise the rows in the order of the sources.
CollectResult(saved, finished) ==
    IF saved # NoError THEN [kind |-> "Err", error |-> saved]
    ELSE [kind |-> "Ok",
          isochrones |-> [k \in 1..Len(finished) |-> finished[k].isochrone]]

\* The rows that returned Ok, in the order of the sources.
OkRows(done) ==
    LET order == SelectSeq([i \in 1..Len(batch.snapped_points) |-> i],
                           LAMBDA i : i \in DOMAIN done /\ done[i].kind = "Ok")
    IN  [k \in 1..Len(order) |-> done[order[k]]]

\* ------------------------------------------------------- isochrone runs
\* Largest number of sources in a batch of isochrones.
MaxSources == 3

\* Source i lies at one of two positions, by turns.
SourcesOf(n) == [i \in 1..n |-> PyPoint(PointIds[i], IF i % 2 = 1 THEN 1 ELSE 2)]

\* The cutoffs asked for (ticks): none, a walk of one street, more.
Cutoffs == {0, Ticks(139), Ticks(300)}

InitIso ==
    /\ InitBatch
    /\ batch \in {[fn |-> "bulk_isochrones", phase |-> "rows",
                   snapped_points |-> SnapAll(graph, SourcesOf(nr[1])).points,
                   cutoff |-> cutoff, rejected |-> nr[2]] :
                     nr \in UNION {{<<m, r>> : r \in SUBSET (1..m)} : m \in 1..MaxSources},
                     cutoff \in Cutoffs}

\* A worker thread takes a row nobody has taken, unless the collector is
\* full, and enters the row's closure.
IsoTake(w) ==
    /\ batch.fn = "bulk_isochrones"
    /\ batch.phase = "rows"
    /\ workers[w].row = 0
    /\ ~collector.full
    /\ \E i \in (1..Len(batch.snapped_points)) \ TakenRows :
          workers' = [workers EXCEPT ![w] = [IdleWorker EXCEPT !.row = i, !.stage = "run"]]
    /\ UNCHANGED <<batch, done_rows, collector, batch_result, batchFrame>>

\* The row's closure returns.  An Ok row goes to the collection and the
\* worker is free; an Err goes to the collector, which saves it if it is
\* the first to arrive.
IsoFinish(w) ==
    /\ batch.fn = "bulk_isochrones"
    /\ workers[w].stage = "run"
    /\ LET i == workers[w].row
           r == IsochroneRow(graph, batch.snapped_points[i], start_time, batch.cutoff,
                             i \in batch.rejected)
       IN  /\ done_rows' = done_rows @@ (i :> r)
           /\ IF r.kind = "Ok"
              THEN /\ workers' = [workers EXCEPT ![w] = IdleWorker]
                   /\ collector' = collector
              ELSE /\ workers' = [workers EXCEPT ![w].stage = "stopping"]
                   /\ collector' = [collector EXCEPT
                          !.saved_error = SaveError(@, r.error),
                          !.failures = Append(@, i)]
    /\ UNCHANGED <<batch, batch_result, batchFrame>>

\* while_some meets the None of the failed row and sets the full flag.
IsoStop(w) ==
    /\ batch.fn = "bulk_isochrones"
    /\ workers[w].stage = "stopping"
    /\ collector' = [collector EXCEPT !.full = TRUE]
    /\ workers' = [workers EXCEPT ![w] = IdleWorker]
    /\ UNCHANGED <<batch, done_rows, batch_result, batchFrame>>

\* No row is running and none will be taken: collect() returns.
IsoCollect ==
    /\ batch.fn = "bulk_isochrones"
    /\ batch.phase = "rows"
    /\ \A w \in 1..NumWorkers : workers[w].row = 0
    /\ collector.full \/ DOMAIN done_rows = 1..Len(batch.snapped_points)
    /\ batch' = [batch EXCEPT !.phase = "returned"]
    /\ batch_result' = CollectResult(collector.saved_error, OkRows(done_rows))
    /\ UNCHANGED <<workers, done_rows, collector, batchFrame>>

NextIso ==
    \/ \E w \in 1..NumWorkers : IsoTake(w)
    \/ \E w \in 1..NumWorkers : IsoFinish(w)
    \/ \E w \in 1..NumWorkers : IsoStop(w)
    \/ IsoCollect

SpecIso == InitIso /\ [][NextIso]_vars

\* -------------------------------------------- claims on a failing batch
\* C20: when a row of a parallel batch fails, the batch returns the error
\* of the row that failed first and no row of the result, and once the
\* collector is full no further row is started.
C20_FirstErrorNoPartial ==
    /\ [](batch_result # Pending =>
            IF collector.failures = <<>>
            THEN /\ batch_result.kind = "Ok"
                 /\ Len(batch_result.isochrones) = Len(batch.snapped_points)
            ELSE batch_result =
                    [kind |-> "Err",
                     error |-> RowError(batch.snapped_points[collector.failures[1]].id).error])
    /\ [][collector.full => TakenRows' \subseteq TakenRows]_vars

\* A batch returned the error of a row that failed before a row earlier in
\* the sources did, and left a row unstarted.
C20_Witness ==
    /\ batch_result # Pending
    /\ batch_result.kind = "Err"
    /\ Len(collector.failures) >= 2
    /\ collector.failures[1] > collector.failures[2]
    /\ TakenRows # 1..Len(batch.snapped_points)

\* ------------------------------------------- claims on composed queries
\* The two legs of a journey over node k: origin to k, and k to the target
\* leaving k when the first leg (d, ticks) is over.
Leg(k) == shortest_path_weight(graph, origin, SnappedPoint(k, 0), start_time)

Onward(k, d) ==
    shortest_path_weight(graph, SnappedPoint(k, 0), target, start_time + (d \div Scale))

\* C21: the weight from the origin to a reachable target is at most the
\* weight from the origin to any reachable node k plus the weight from k to
\* the target when leaving k at start_time + d(origin, k).  Stated for
\* graphs with FIFO transit edges and for the k whose d(origin, k) is a
\* whole number of seconds, so that the second query's start time exists.
C21_TriangleConsistency ==
    (Weight.kind = "Ok" /\ FifoGraph(graph)) =>
        \A k \in GraphNodes(graph) :
            (/\ Leg(k).kind = "Ok"
             /\ Leg(k).value % Scale = 0
             /\ Onward(k, Leg(k).value).kind = "Ok")
                => Weight.value <= Leg(k).value + Onward(k, Leg(k).value).value

\* --------------------------------------------------------- rebuild runs
\* src/algo.rs shortest_path_weight: both points are snapped on the graph,
\* then the core query runs.
PyShortestPathWeight(g, dep_time, source_x, target_x) ==
    LET source == SnappedPointInit(source_x, g)
        tgt == SnappedPointInit(target_x, g)
    IN  IF source.kind = "Err" THEN source
        ELSE IF tgt.kind = "Err" THEN tgt
        ELSE shortest_path_weight(g, source.point, tgt.point, dep_time)

\* src/itinerary.rs detailed_itinerary: both points are snapped on the graph,
\* then the core query runs; the itinerary is returned with the points
\* asked about beside it.
PyDetailedItinerary(g, dep_time, source_x, target_x, wheelchair) ==
    LET source == SnappedPointInit(source_x, g)
        tgt == SnappedPointInit(target_x, g)
    IN  IF source.kind = "Err" THEN source
        ELSE IF tgt.kind = "Err" THEN tgt
        ELSE [kind |-> "Itinerary",
              itinerary |-> detailed_itinerary(g, source.point, tgt.point,
                                               dep_time, wheelchair),
              source |-> source, target |-> tgt, dep_time |-> dep_time]

\* The feed arguments of the rebuild runs: feeds that load.
RebuildFeedArgs ==
    {FeedArgs(GtfsNorth, 0, 100, "monday"), FeedArgs(GtfsNorth, 0, 100, "sunday")}

\* The points the rebuild runs ask about: on a street node, halfway between
\* two, and on a stop.
AskPositions == {0, 1, 3}

\* The OSM extracts of the rebuild runs.
RebuildPbfInputs == {PbfOf({1, 3}), PbfOf({1, 3, 5})}

InitRebuild ==
    /\ pbf \in RebuildPbfInputs
    /\ gtfs_args \in RebuildFeedArgs
    /\ prepared = Pending
    /\ city = Pending /\ snapped = Pending /\ rebuilt = Pending /\ replies = Pending
    /\ tie_pick = 0
    /\ OracleIdle /\ QueriesIdle /\ EngineIdle /\ answers = NoAnswers /\ LoaderIdle
    /\ BatchIdle

rebuildFrame == <<oracleVars, queryVars, engineVars, loaderVars, pbf, prepareVars,
                  snapped, batchVars>>

\* One of the graphs TransitGraph::from can return for the inputs.
BuildsOf(osm, feed_args) ==
    {from(osm, feed_args, hash_order, layout, group_order) :
        hash_order \in Orders(GraphNodes(StreetDiGraph(osm).graph)),
        layout \in Layouts,
        group_order \in Orders(GroupKeys(feed_args))}

\* TransitGraph::from(feed_args), the first time.
BuildFirst ==
    /\ city = Pending
    /\ \E r \in BuildsOf(pbf, gtfs_args) :
          city' = IF r.err = NoError
                  THEN [kind |-> "Ok", graph |-> r.graph, extended |-> 0]
                  ELSE [kind |-> "Err", error |-> r.err]
    /\ UNCHANGED <<rebuilt, replies, answers, rebuildFrame>>

\* TransitGraph::from(feed_args) again, on the same inputs.  RTree::bulk_load
\* is a function of the points it is handed, in their order: where the nodes
\* come out in the order of the first build, so does the tree.
BuildAgain ==
    /\ city # Pending /\ city.kind = "Ok"
    /\ rebuilt = Pending
    /\ answers = NoAnswers
    /\ \E r \in BuildsOf(pbf, gtfs_args) :
          /\ r.err = NoError
          /\ r.graph.nodes = city.graph.nodes => r.graph.rtree = city.graph.rtree
          /\ rebuilt' = [kind |-> "Ok", graph |-> r.graph, extended |-> 0]
    /\ UNCHANGED <<city, replies, answers, rebuildFrame>>

\* The same shortest_path_weight query put to both graphs.
AskBoth ==
    /\ city # Pending /\ city.kind = "Ok"
    /\ rebuilt # Pending /\ rebuilt.kind = "Ok"
    /\ replies = Pending
    /\ answers = NoAnswers
    /\ \E source_x \in AskPositions, target_x \in AskPositions, dep_time \in 0..MaxStart :
          replies' = [source_x |-> source_x, target_x |-> target_x, dep_time |-> dep_time,
                      first |-> PyShortestPathWeight(city.graph, dep_time, source_x, target_x),
                      second |-> PyShortestPathWeight(rebuilt.graph, dep_time,
                                                      source_x, target_x)]
    /\ UNCHANGED <<city, rebuilt, answers, rebuildFrame>>

\* One detailed_itinerary query put to the first graph.
AskItinerary ==
    /\ city # Pending /\ city.kind = "Ok"
    /\ rebuilt = Pending
    /\ answers = NoAnswers
    /\ \E source_x \in Positions, target_x \in Positions, dep_time \in 0..MaxStart :
          answers' = [answers EXCEPT !.detailed_itinerary =
              PyDetailedItinerary(city.graph, dep_time, source_x, target_x, FALSE)]
    /\ UNCHANGED <<city, rebuilt, replies, rebuildFrame>>

NextRebuild == BuildFirst \/ BuildAgain \/ AskBoth \/ AskItinerary

SpecRebuild == InitRebuild /\ [][NextRebuild]_vars

\* -------------------------------------------------- claims on rebuilding
\* C22: two graphs built from identical inputs answer the same query (same
\* origin point, target point and start time) with the same score.
C22_RebuildSameScores ==
    replies # Pending => replies.first = replies.second

\* C23: every non-empty itinerary detailed_itinerary returns between two
\* snapped points ends with a Pedestrian segment; the target is snapped to a
\* street node, and every edge entering a street node is a Walk or a
\* Transfer edge.
C23_LastSegmentPedestrian ==
    (city # Pending /\ city.kind = "Ok") =>
        /\ \A k \in 1..Len(city.graph.edges) :
              city.graph.nodes[city.graph.edges[k].target + 1].kind = "Walk"
                  => city.graph.edges[k].weight.kind \in {"Walk", "Transfer"}
        /\ (Plain.kind = "Itinerary" /\ Plain.itinerary.segments # <<>>) =>
              /\ city.graph.nodes[Plain.target.point.index + 1].kind = "Walk"
              /\ Plain.itinerary.segments[Len(Plain.itinerary.segments)].kind
                    = "Pedestrian"

\* C23 witness: an itinerary that rides a trip and ends on foot, asked for
\* a target lying on a stop.
C23_Witness ==
    /\ Plain.kind = "Itinerary"
    /\ \E i \in 1..Len(Plain.itinerary.segments) :
          Plain.itinerary.segments[i].kind = "Transit"
    /\ Plain.itinerary.segments[Len(Plain.itinerary.segments)].kind = "Pedestrian"
    /\ \E n \in Stops(city.graph) :
          city.graph.nodes[n + 1].geometry = Plain.target.geometry

\* ------------------------------------------- claims on the loaded edges
\* What the adjacent stop-times of the trips in `trips` call for: one entry
\* <<trip, i>> per pair of adjacent rows, and the edge and Trip it stands for.
PairsOf(trips) ==
    UNION {{<<t, i>> : i \in 1..(Cardinality(stop_times_df[t]) - 1)} : t \in trips}

PairEntry(p) ==
    LET rows == SortBySequence(stop_times_df[p[1]])
        ids == NodeIdMap(stops_df)
    IN  <<ids[rows[p[2]].stop_id], ids[rows[p[2] + 1].stop_id],
          Trip(rows[p[2]].departure_time, rows[p[2] + 1].arrival_time,
               rows[p[2]].route_id, FALSE)>>

\* The trips the graph holds: one entry <<k, j>> per trip j of edge k.
HeldTrips(g) ==
    UNION {{<<k, j>> : j \in 1..Len(g.edges[k].weight.edge_trips)} : k \in 1..Len(g.edges)}

HeldEntry(g, h) ==
    <<g.edges[h[1]].source, g.edges[h[1]].target, g.edges[h[1]].weight.edge_trips[h[2]]>>

IntegerWeights(g) ==
    \A k \in 1..Len(g.edges) :
        g.edges[k].weight.kind # "Transit" => g.edges[k].weight.edge_weight % Scale = 0

\* The time (ticks since midnight) at which segment i of an itinerary begins:
\* start_time plus the weights of the segments before it.
BeginsAt(segs, i) == start_time * Scale + SumWeights(SubSeq(segs, 1, i - 1))

BoardsInTime(segs) ==
    \A i \in 1..Len(segs) :
        segs[i].kind = "Transit" =>
            /\ segs[i].trip.departure_time * Scale >= BeginsAt(segs, i)
            /\ segs[i].weight = segs[i].trip.arrival_time * Scale - BeginsAt(segs, i)

\* C25: on a graph whose weights are whole seconds, every Transit segment of
\* an itinerary detailed_itinerary returns rides a trip that departs no
\* earlier than start_time plus the weights of the segments before it, and
\* weighs the trip's arrival less that time.
C25_NeverBoardsDepartedTrip ==
    IntegerWeights(graph) =>
        /\ Plain.kind = "Itinerary" => BoardsInTime(Plain.itinerary.segments)
        /\ Wheelchair.kind = "Itinerary" => BoardsInTime(Wheelchair.itinerary.segments)

\* C25 witness: an itinerary of two rides on a graph of whole-second
\* weights, the second boarded when the first arrives, after start_time.
C25_Witness ==
    /\ IntegerWeights(graph)
    /\ Plain.kind = "Itinerary"
    /\ Len(Plain.itinerary.segments) = 2
    /\ \A i \in 1..2 : Plain.itinerary.segments[i].kind = "Transit"
    /\ BeginsAt(Plain.itinerary.segments, 2) > start_time * Scale
    /\ Plain.itinerary.segments[2].weight > 0

\* ---------------------------------------------- claims on the isochrone
\* The one-to-all scores of row i's source, its snap walk included.
RowCosts(i) ==
    single_source_shortest_path(graph, batch.snapped_points[i].snapped, start_time)

\* C26: the nodes an isochrone is built from are exactly the nodes whose
\* one-to-all score (the origin's snap walk included) is <= cutoff; so every
\* smaller cutoff gives a subset of them, and with cutoff = 0 and a positive
\* snap walk there is none.
C26_IsochroneNodesWithinCutoff ==
    \A i \in DOMAIN done_rows :
        (batch.fn = "bulk_isochrones" /\ done_rows[i].kind = "Ok") =>
            LET built == done_rows[i].isochrone.geometry
                costs == RowCosts(i)
            IN
            /\ \A n \in GraphNodes(graph) :
                  n \in built <=> (n \in DOMAIN costs /\ costs[n] <= batch.cutoff)
            /\ \A c \in Cutoffs :
                  c <= batch.cutoff => WithinCutoff(costs, c) \subseteq built
            /\ (batch.cutoff = 0 /\ batch.snapped_points[i].snapped.distance > 0)
                  => built = {}

\* C26 witness: a batch with cutoff 0 in which the source with a snap walk
\* gets no node and the source lying on a street node gets its own.
C26_Witness ==
    /\ batch # Pending
    /\ batch.fn = "bulk_isochrones"
    /\ batch.cutoff = 0
    /\ \E i, j \in DOMAIN done_rows :
          /\ done_rows[i].kind = "Ok" /\ done_rows[j].kind = "Ok"
          /\ batch.snapped_points[i].snapped.distance > 0
          /\ done_rows[i].isochrone.geometry = {}
          /\ batch.snapped_points[j].snapped.index \in done_rows[j].isochrone.geometry

\* ------------------------------------------- claims on the early exit
\* The scores of the search that stops at node t, and of the one that does not.
EarlyExit(t) == time_dependent_dijkstra(graph, origin.index, Some(t), start_time)
AllWeights == time_dependent_dijkstra(graph, origin.index, None, start_time)

\* C27: the score of a target in the map of the search that breaks at it is
\* its score in the map of the search without a target, and it is missing
\* from the one exactly when it is missing from the other; so the answers
\* of shortest_path_weight and single_source_shortest_path agree on it.
C27_EarlyExitSameScore ==
    /\ (Weight # Pending /\ OneToAll # Pending) =>
          /\ Weight.kind = "Ok" <=> target.index \in DOMAIN OneToAll.scores
          /\ Weight.kind = "Ok" => Weight.value = OneToAll.scores[target.index]
    /\ (Weight # Pending /\ Plain = Pending /\ Wheelchair = Pending) =>
          \A t \in GraphNodes(graph) :
              /\ t \in DOMAIN EarlyExit(t) <=> t \in DOMAIN AllWeights
              /\ t \in DOMAIN AllWeights => EarlyExit(t)[t] = AllWeights[t]

\* C27 witness: both queries answered; the search with the target stopped
\* before scoring a node the other one scored, and the target was reached
\* over an intermediate node at a score below that of a direct edge.
C27_Witness ==
    /\ Weight # Pending /\ OneToAll # Pending
    /\ Weight.kind = "Ok"
    /\ target.index # origin.index
    /\ DOMAIN EarlyExit(target.index) # DOMAIN AllWeights
    /\ \E e \in DOMAIN graph.edges :
          /\ graph.edges[e].source = origin.index
          /\ graph.edges[e].target = target.index
          /\ calculate_delay(graph.edges[e].weight, start_time) < INFINITY
          /\ calculate_delay(graph.edges[e].weight, start_time) > AllWeights[target.index]

\* ------------------------------------- itinerary runs on looping graphs
\* detailed_itinerary_internal alone, a turn of its loop at a time, on graphs
\* with self-loops, zero-cost cycles and parallel edges.  No trips are tied.
LoopEdgeUniverse ==
    << Edge(0, 0, WalkEdge(0)),
       Edge(0, 1, WalkEdge(0)),
       Edge(1, 0, TransferEdge(0)),
       Edge(1, 1, TransitEdge(<<Trip(1, 1, "r1", TRUE)>>)),
       Edge(1, 2, TransitEdge(<<Trip(0, 1, "r2", FALSE), Trip(1, 2, "r3", TRUE)>>)),
       Edge(1, 2, WalkEdge(3)),
       Edge(2, 2, WalkEdge(1)),
       Edge(2, 1, WalkEdge(0)),
       Edge(2, 3, TransitEdge(<<Trip(2, 3, "r4", TRUE)>>)) >>

RECURSIVE PickLoop(_, _)
PickLoop(keep, i) ==
    IF i > Len(LoopEdgeUniverse) THEN <<>>
    ELSE (IF i \in keep THEN <<LoopEdgeUniverse[i]>> ELSE <<>>) \o PickLoop(keep, i + 1)

LoopGraphs ==
    {[node_count |-> NodeCount, edges |-> PickLoop(keep, 1)] :
        keep \in {k \in SUBSET (1..Len(LoopEdgeUniverse)) : Cardinality(k) <= MaxEdges}}

InitItinerary ==
    /\ graph \in LoopGraphs
    /\ tie_pick = 0
    /\ origin \in {SnappedPoint(n, 0) : n \in 0..1}
    /\ target \in {SnappedPoint(n, 0) : n \in GraphNodes(graph)}
    /\ start_time \in 0..MaxStart
    /\ OracleIdle
    /\ LoaderIdle
    /\ StagesIdle
    /\ call \in {c \in Calls : c.fn = "detailed_itinerary"}
    /\ search = SearchSeed(origin.index, start_time)
    /\ outcome = Pending
    /\ answers = NoAnswers

NextItinerary ==
    \/ ItinerarySkip \/ ItineraryBreak \/ ItineraryExpand \/ ItineraryExhausted

\* The loop is sequential code: a turn that can be taken is taken.
SpecItinerary == InitItinerary /\ [][NextItinerary]_vars /\ WF_vars(NextItinerary)

\* The nodes the predecessor walk passes from `current`, cut at the first
\* node it meets again.
RECURSIVE PredChain(_, _, _)
PredChain(predecessors, current, seen) ==
    IF current \notin DOMAIN predecessors \/ current \in seen
    THEN <<current>>
    ELSE <<current>> \o PredChain(predecessors, predecessors[current].prev,
                                  seen \cup {current})

\* The walk from the target passes no node twice and ends at the origin.
WalkEndsAtOrigin(s) ==
    LET chain == PredChain(s.predecessors, target.index, {}) IN
    /\ \A i, j \in 1..Len(chain) : i # j => chain[i] # chain[j]
    /\ chain[Len(chain)] = origin.index
    /\ Len(WalkBack(s.predecessors, target.index)) = Len(chain) - 1

\* A turn that relaxes edges takes a node not yet visited and marks it.
ExpandsOnce ==
    (InItinerary /\ outcome = Pending /\ NextTurn(search, TargetArg) = "expand") =>
        LET node == HeapPop(search.visit_next).item.node IN
        /\ node \notin search.visited
        /\ search'.visited = search.visited \cup {node}

\* C28: a detailed_itinerary query returns: every node is expanded at most
\* once and visited only grows, so the loop ends; the origin never gets a
\* predecessor; and the walk back from a scored target passes no node twice
\* and stops at the origin.
C28_ItineraryTerminates ==
    /\ <>(outcome # Pending)
    /\ [][ExpandsOnce /\ search.visited \subseteq search'.visited]_vars
    /\ [](origin.index \notin DOMAIN search.predecessors)
    /\ []((outcome # Pending /\ target.index \in DOMAIN search.scores)
              => WalkEndsAtOrigin(search))

\* C28 witness: a query that returned an itinerary of two segments or more
\* on a graph with a self-loop on the origin and two parallel edges into the
\* target.
C28_Witness ==
    /\ InItinerary
    /\ outcome # Pending
    /\ Len(outcome.itinerary.segments) >= 2
    /\ \E a, d, e \in DOMAIN graph.edges :
          /\ graph.edges[a].source = origin.index /\ graph.edges[a].target = origin.index
          /\ d # e
          /\ graph.edges[d].source = graph.edges[e].source
          /\ graph.edges[d].target = target.index
          /\ graph.edges[e].target = target.index

\* ------------------------------------------ claims on a failed extend
\* The nodes of a graph that are stops.
StopsOf(g) == {i \in 1..Len(g.nodes) : g.nodes[i].kind = "Transit"}

\* The extend_with_transit calls on the graph as it stands that return Err:
\* the feed, the order of its groups, what the call returns.
FailingExtends ==
    {c \in {[feed_args |-> f, group_order |-> o,
             returned |-> extend_with_transit(city.graph, f, o)] :
                <<f, o>> \in UNION {{<<a, b>> : b \in Orders(GroupKeys(a))} :
                                        a \in FeedArgsInputs}} :
        c.returned.err # NoError}

\* C29: an extend_with_transit call that returns an error leaves the graph
\* and its spatial index as they were before the call: a step that changes
\* the graph is a call that returned Ok, and every call that returns Err on
\* the graph as it stands hands back that very graph.
C29_FailedExtendLeavesGraph ==
    /\ [][(city.kind = "Ok" /\ city'.kind = "Ok" /\ city'.graph # city.graph)
              => city'.extended = city.extended + 1]_vars
    /\ []((city.kind = "Ok" /\ city.extended < MaxExtends /\ snapped = Pending)
              => \A c \in FailingExtends : c.returned.graph = city.graph)

\* C29 witness: a graph with stops and a spatial index on which a call
\* fails for a stop its feed does not list, after a pair of stops the feed
\* does list.
C29_Witness ==
    /\ city.kind = "Ok"
    /\ city.extended < MaxExtends
    /\ StopsOf(city.graph) # {}
    /\ city.graph.rtree.some
    /\ \E c \in FailingExtends :
          /\ c.returned.err.kind = "PolarsError"
          /\ c.returned.err.inner.text.text = "Node not found for id: {0}"

\* ------------------------------------------ claims on the search clock
\* The entries on the queue.
QueueEntries(s) == {s.visit_next[i] : i \in DOMAIN s.visit_next}

\* What the running search charges for an edge left at `time`.
CostAt(e, time) ==
    IF InItinerary
    THEN LET segment == calculate_itinerary(e.weight, time, call.wheelchair)
         IN  IF segment = SegNoService THEN INFINITY ELSE segment.weight
    ELSE calculate_delay(e.weight, time)

\* An entry's clock is not ahead of t0 plus its score, and is level with it
\* where no cost has a fraction of a second.
ClockBehindScore(m) ==
    /\ m.time * Scale <= start_time * Scale + m.score
    /\ IntegerWeights(graph) => m.time * Scale = start_time * Scale + m.score

\* Every entry a turn pushes continues the popped entry over one edge: its
\* score is the popped score plus the edge's cost, its clock the popped
\* clock plus the cost cut to whole seconds.
PushedOverOneEdge ==
    (outcome = Pending /\ NextTurn(search, TargetArg) = "expand") =>
        LET item == HeapPop(search.visit_next).item
            rest == QueueEntries(TakePop(search))
        IN  \A m \in QueueEntries(search') \ rest :
                \E k \in DOMAIN graph.edges :
                    LET cost == CostAt(graph.edges[k], item.time) IN
                    /\ graph.edges[k].source = item.node
                    /\ graph.edges[k].target = m.node
                    /\ cost < INFINITY
                    /\ m.score = item.score + cost
                    /\ m.time = item.time + (cost \div Scale)

\* C30: the clock of every entry pushed on the queue is t0 plus the costs of
\* its path each cut to whole seconds (the seed carries t0, every push adds
\* one cut cost to the popped clock); so it is never ahead of t0 plus the
\* score and equals it where all costs are whole seconds.
C30_ClockIsTruncatedSum ==
    /\ [](\A m \in QueueEntries(search) : ClockBehindScore(m))
    /\ [](search.popped # Pending => ClockBehindScore(search.popped.item))
    /\ [][PushedOverOneEdge]_vars

\* C30 witness: a popped entry that has advanced its clock and still lags its
\* score by a fraction of a second, and an entry pushed from it on the queue.
C30_Witness ==
    /\ search.popped # Pending
    /\ search.popped.item.time > start_time
    /\ search.popped.item.time * Scale < start_time * Scale + search.popped.item.score
    /\ \E m \in QueueEntries(search) :
          /\ m.score > search.popped.item.score
          /\ m.time * Scale < start_time * Scale + m.score

====
